---------------------------- MODULE Spec2Model ----------------------------
(***************************************************************************)
(* A model of the Simulanka interpreter and evolution driver.              *)
(*                                                                         *)
(* Environments and Lists live behind Arc<RwLock<..>>: the model keeps a   *)
(* heap `envs` (address -> store) and a heap `lists` (address -> sequence  *)
(* of Values); an Object or List value holds an address, so that sharing   *)
(* and identity (Arc::ptr_eq) are what they are in the program.  An        *)
(* address is <<arena, k>>: the k-th allocation made on behalf of `arena`  *)
(* (arena 0: the GUI thread outside any world; arena a > 0: the a-th World *)
(* constructed).  Only the identity of an address is observable.           *)
(***************************************************************************)
EXTENDS Integers, Sequences, FiniteSets, TLC

VARIABLES
    program,              \* the parsed Program (types.rs Program), fixed for a run
    envs,                 \* heap of Environments: address -> store
    lists,                \* heap of Lists: address -> sequence of Values
    instances,            \* SimApp.instances: the worlds
    history,              \* SimApp.history: the snapshot log
    current_gen_idx,      \* SimApp.current_gen_idx
    current_step_idx,     \* SimApp.current_step_idx
    current_gen,          \* SimApp.current_gen
    running,              \* SimApp.running
    global_best_fitness,  \* SimApp.global_best_fitness
    pc,                   \* position of the GUI thread inside run_generation
    wpc,                  \* per world: position of its rayon task in the parallel phase
    held,                 \* Environments of the previous population an observer still refers to
    removed,              \* the snapshots dropped from the log by the last run_generation
    nworlds,              \* number of Worlds constructed so far (next arena)
    grid,                 \* inputs and results of one environment[x][y] evaluation
    ev,                   \* one thread executing a body: its heap, commands and outcome
    tls,                  \* per thread: GRID_CACHE, DRAW_COMMANDS, WORLD_DIMENSIONS and its pass
    front                 \* main: the source text's blocks, the parse and validation results

vars == <<program, envs, lists, instances, history, current_gen_idx,
          current_step_idx, current_gen, running, global_best_fitness,
          pc, wpc, held, removed, nworlds, grid, ev, tls, front>>

\* the variables of the evolution engine
engine == <<program, envs, lists, instances, history, current_gen_idx,
            current_step_idx, current_gen, running, global_best_fitness,
            pc, wpc, held, removed, nworlds>>

---------------------------------------------------------------------------
(* Bounds of the model and constants of the program.                       *)

MaxInstances == 4       \* largest EVOLVE instances explored
MaxSteps == 2           \* largest ENVIRONMENT steps explored
MaxAgents == 2          \* most spawn commands in the SPAWN block
MaxGenerations == 2     \* EVOLVE generations of the short runs
ExtraGenerations == 3   \* generations run beyond the log's cap in the long run
HistoryCap == 100       \* gui.rs: if self.history.len() > 100

---------------------------------------------------------------------------
(* Values (types.rs enum Value).                                           *)

VInt(n) == [t |-> "Int", v |-> n]
VString(s) == [t |-> "String", v |-> s]
VObject(e) == [t |-> "Object", v |-> e]
VList(l) == [t |-> "List", v |-> l]

\* `s.parse().unwrap_or(0)` of a String, for the strings explored: an
\* optional sign and decimal digits give the number, anything else (a
\* species name, a blank, the empty string) gives 0
str_parse(s) ==
    CASE s = "7" -> 7
      [] s = "+7" -> 7
      [] s = "12" -> 12
      [] s = "-3" -> 0 - 3
      [] OTHER -> 0

\* Value::to_int
to_int(val) ==
    IF val.t = "Int" THEN val.v
    ELSE IF val.t = "Bool" THEN (IF val.v THEN 1 ELSE 0)
    ELSE IF val.t = "String" THEN str_parse(val.v)
    ELSE 0

EmptyStore == [k \in {} |-> VInt(0)]

\* HashMap::insert
Insert(store, k, val) ==
    [j \in DOMAIN store \cup {k} |-> IF j = k THEN val ELSE store[j]]

\* The order in which a store's keys are visited where the program iterates
\* a HashMap (only the naming of fresh addresses depends on it).
KeyOrder == <<"x", "y", "species", "self", "fitness", "mate", "genes",
              "seen", "a", "mark">>

\* TLC evaluates the arguments of an operator lazily: a loop that hands the
\* heap from one iteration to the next would build one nested computation
\* as deep as the loop is long.  Now(H) is TRUE and makes H a value first.
Now(H) == Len(<<H>>) = 1

\* `let v = ..; K(v)`: the value is computed once and handed to what follows
With(v, K(_)) == K(v)

\* The k-th address of an arena: Arc::new
NewAddr(dom, arena) == <<arena, Cardinality({p \in dom : p[1] = arena}) + 1>>

\* Environment::new, with the store it is given
AllocEnv(H, a, store) == [H EXCEPT !.envs = @ @@ (a :> store)]

\* Value::List(Arc::new(RwLock::new(items)))
AllocList(H, a, items) ==
    [val |-> VList(a), H |-> [H EXCEPT !.lists = @ @@ (a :> items)]]

SetStore(H, e, store) == [H EXCEPT !.envs[e] = store]

\* store.clear()
ClearStore(H, e) == [H EXCEPT !.envs[e] = EmptyStore]

\* a copy that clones a List as it clones everything else
deep_copy_shared(val, H, arena) == [val |-> val, H |-> H]

\* Value::deep_copy: a List is copied element by element into a new List,
\* every other value (an Object included) is cloned, i.e. shared.
RECURSIVE deep_copy(_, _, _), deep_copy_items(_, _, _)
deep_copy_items(items, H, arena) ==
    IF Now(H) /\ items = <<>> THEN [vals |-> <<>>, H |-> H]
    ELSE With(deep_copy(Head(items), H, arena), LAMBDA h :
         With(deep_copy_items(Tail(items), h.H, arena), LAMBDA r :
         [vals |-> <<h.val>> \o r.vals, H |-> r.H]))
deep_copy(val, H, arena) ==
    IF val.t = "List"
    THEN With(deep_copy_items(H.lists[val.v], H, arena), LAMBDA r :
         AllocList(r.H, NewAddr(DOMAIN r.H.lists, arena), r.vals))
    ELSE [val |-> val, H |-> H]

\* Environment::deep_copy_store
RECURSIVE deep_copy_keys(_, _, _, _, _)
deep_copy_keys(keys, store, acc, H, arena) ==
    IF Now(H) /\ keys = <<>> THEN [store |-> acc, H |-> H]
    ELSE IF Head(keys) \in DOMAIN store
         THEN With(deep_copy(store[Head(keys)], H, arena), LAMBDA r :
              deep_copy_keys(Tail(keys), store, Insert(acc, Head(keys), r.val),
                             r.H, arena))
         ELSE deep_copy_keys(Tail(keys), store, acc, H, arena)
deep_copy_store(store, H, arena) == deep_copy_keys(KeyOrder, store, EmptyStore, H, arena)

\* fn fix inside Individual::deep_clone: an Object that is the old
\* environment becomes the new one, inside Lists too (written in place).
RECURSIVE fix(_, _, _, _), fix_list(_, _, _, _, _)
fix_list(l, i, old, new, H) ==
    IF Now(H) /\ i > Len(H.lists[l]) THEN H
    ELSE With(fix(H.lists[l][i], old, new, H), LAMBDA r :
         fix_list(l, i + 1, old, new, [r.H EXCEPT !.lists[l][i] = r.val]))
fix(val, old, new, H) ==
    IF val.t = "Object" /\ val.v = old THEN [val |-> VObject(new), H |-> H]
    ELSE IF val.t = "List" THEN [val |-> val, H |-> fix_list(val.v, 1, old, new, H)]
    ELSE [val |-> val, H |-> H]

RECURSIVE fix_store(_, _, _, _, _)
fix_store(keys, store, old, new, H) ==
    IF Now(H) /\ keys = <<>> THEN [store |-> store, H |-> H]
    ELSE IF Head(keys) \in DOMAIN store
         THEN With(fix(store[Head(keys)], old, new, H), LAMBDA r :
              fix_store(Tail(keys), [store EXCEPT ![Head(keys)] = r.val], old, new, r.H))
         ELSE fix_store(Tail(keys), store, old, new, H)

\* Individual::deep_clone: returns the clone and the heap holding it
deep_clone(ind, H, arena) ==
    LET new_env == NewAddr(DOMAIN H.envs, arena)
    IN With(AllocEnv(H, new_env, EmptyStore), LAMBDA H1 :
       With(deep_copy_store(H1.envs[ind.env], H1, arena), LAMBDA c :
       With(fix_store(KeyOrder, c.store, ind.env, new_env, c.H), LAMBDA f :
       [ind |-> [species |-> ind.species, env |-> new_env],
        H |-> SetStore(f.H, new_env, f.store)])))

\* a loop `for ind in individuals { .. deep_clone .. push }`
RECURSIVE deep_clone_all(_, _, _)
deep_clone_all(inds, H, arena) ==
    IF Now(H) /\ inds = <<>> THEN [inds |-> <<>>, H |-> H]
    ELSE With(deep_clone(Head(inds), H, arena), LAMBDA h :
         With(deep_clone_all(Tail(inds), h.H, arena), LAMBDA r :
         [inds |-> <<h.ind>> \o r.inds, H |-> r.H]))

---------------------------------------------------------------------------
(* The species block of the programs explored:                             *)
(*   SPECIES { Ant { mate: 0, genes: [], routine: act }  Bee { }           *)
(*             ROUTINE act { <program.routine> } }                         *)
(* An Ant runs the routine `act` each tick; a Bee names no routine.  The    *)
(* programs that spawn at chosen coordinates declare a third species,      *)
(*   Wasp { x: 0, genes: [], y: 0, routine: act }                          *)
(* whose default properties carry the names of the position keys.          *)

species_block == {"Ant", "Bee", "Wasp"}

species_properties(species) ==
    CASE species = "Ant" -> <<"mate", "genes">>
      [] species = "Wasp" -> <<"x", "genes", "y">>
      [] OTHER -> <<>>

routine_call(species) == IF species \in {"Ant", "Wasp"} THEN "act" ELSE ""

\* the routine bodies, by the name program.routine gives them
RoutineKinds == {"idle", "move", "link", "push", "spawn"}

---------------------------------------------------------------------------
(* The evaluator (eval.rs), for the expressions and commands the explored  *)
(* bodies are made of.  H is the heap [envs, lists].                       *)

\* Exp::eval_to_val, Exp::Var: the current store only, no walk to self
eval_to_val_Var(H, env, name) ==
    IF name \in DOMAIN H.envs[env] THEN H.envs[env][name]
    ELSE IF name = "environment" THEN [t |-> "Environment", v |-> 0]
    ELSE VInt(0)

\* Exp::eval_to_val, Exp::Dot: a field of an Object, Int(0) otherwise
eval_to_val_Dot(H, obj_val, field) ==
    IF obj_val.t = "Object" /\ field \in DOMAIN H.envs[obj_val.v]
    THEN H.envs[obj_val.v][field]
    ELSE VInt(0)

\* Exp::eval, Exp::Dot
eval_Dot(H, obj_val, field) == to_int(eval_to_val_Dot(H, obj_val, field))

\* values_are_equal
values_are_equal(a, b) ==
    /\ a.t = b.t
    /\ a.t \in {"Int", "String", "Bool", "Object"}
    /\ a.v = b.v

\* Command::Assign with target Exp::Var
assign_Var(H, env, name, new_value) ==
    [H EXCEPT !.envs[env] = Insert(@, name, new_value)]

\* Command::Assign with target Exp::Dot: a write only when the target is an Object
assign_Dot(H, obj_val, field, new_value) ==
    IF obj_val.t = "Object"
    THEN [H EXCEPT !.envs[obj_val.v] = Insert(@, field, new_value)]
    ELSE H

\* run_builtin "push"
run_builtin_push(H, list_val, value) ==
    IF list_val.t = "List"
    THEN [H EXCEPT !.lists[list_val.v] = Append(@, value)]
    ELSE H

\* The default-property expressions of the species block, evaluated by
\* Command::Spawn: `mate: 0` is Exp::Int, `genes: []` is Exp::List.
RECURSIVE spawn_defaults(_, _, _, _)
spawn_defaults(props, store, H, arena) ==
    IF Now(H) /\ props = <<>> THEN [store |-> store, H |-> H]
    ELSE IF Head(props) = "genes"
         THEN LET l == NewAddr(DOMAIN H.lists, arena)
              IN spawn_defaults(Tail(props), Insert(store, "genes", VList(l)),
                                [H EXCEPT !.lists = @ @@ (l :> <<>>)], arena)
         ELSE spawn_defaults(Tail(props), Insert(store, Head(props), VInt(0)), H, arena)

\* a Spawn that sets the position first and copies the defaults over it
execute_Spawn_defaults_last(species, x_pos, y_pos, H, spawner, arena) ==
    LET new_env == NewAddr(DOMAIN H.envs, arena)
    IN With(spawn_defaults(species_properties(species),
                           Insert(Insert(Insert(EmptyStore, "species", VString(species)),
                                         "x", VInt(x_pos)), "y", VInt(y_pos)),
                           AllocEnv(H, new_env, EmptyStore), arena), LAMBDA d :
       [H |-> SetStore(d.H, new_env, d.store),
        spawner |-> Append(spawner, [species |-> species, env |-> new_env])])

\* Command::Spawn { species, x, y } with x and y already evaluated
execute_Spawn(species, x_pos, y_pos, H, spawner, arena) ==
    LET new_env == NewAddr(DOMAIN H.envs, arena)
    IN With(spawn_defaults(species_properties(species),
                           Insert(EmptyStore, "species", VString(species)),
                           AllocEnv(H, new_env, EmptyStore), arena), LAMBDA d :
       [H |-> SetStore(d.H, new_env,
                       Insert(Insert(d.store, "x", VInt(x_pos)), "y", VInt(y_pos))),
        spawner |-> Append(spawner, [species |-> species, env |-> new_env])])

\* `self.x = self.x + 1`
body_move(H, env) ==
    LET self == eval_to_val_Var(H, env, "self")
    IN assign_Dot(H, self, "x", VInt(eval_Dot(H, self, "x") + 1))

\* Command::For over `environment` with the body `self.mate = a`
RECURSIVE for_link(_, _, _)
for_link(H, env, individuals) ==
    IF Now(H) /\ individuals = <<>> THEN H
    ELSE LET H1 == assign_Var(H, env, "a", VObject(Head(individuals).env))
             H2 == assign_Dot(H1, eval_to_val_Var(H1, env, "self"), "mate",
                              eval_to_val_Var(H1, env, "a"))
         IN for_link(H2, env, Tail(individuals))

\* `if (self.mate == 0) { for a in environment { self.mate = a } }
\*  else { self.mate.mark = 1 }`
body_link(H, env, individuals) ==
    LET mate == eval_to_val_Dot(H, eval_to_val_Var(H, env, "self"), "mate")
    IN IF values_are_equal(mate, VInt(0))
       THEN for_link(H, env, individuals)
       ELSE assign_Dot(H, mate, "mark", VInt(1))

\* `push(self.genes, 1)`
body_push(H, env) ==
    run_builtin_push(H, eval_to_val_Dot(H, eval_to_val_Var(H, env, "self"), "genes"),
                     VInt(1))

\* Command::For over `environment` with the body `self.seen = self.seen + 1`
RECURSIVE for_count(_, _, _)
for_count(H, env, individuals) ==
    IF Now(H) /\ individuals = <<>> THEN H
    ELSE LET H1 == assign_Var(H, env, "a", VObject(Head(individuals).env))
             self == eval_to_val_Var(H1, env, "self")
             H2 == assign_Dot(H1, self, "seen", VInt(eval_Dot(H1, self, "seen") + 1))
         IN for_count(H2, env, Tail(individuals))

\* `if (self.x == 0) { spawn Ant at (1, self.y) }
\*  self.seen = 0; for a in environment { self.seen = self.seen + 1 }`
body_spawn(H, env, individuals, spawner, arena) ==
    LET self == eval_to_val_Var(H, env, "self")
    IN With(IF values_are_equal(eval_to_val_Dot(H, self, "x"), VInt(0))
            THEN execute_Spawn("Ant", 1, eval_Dot(H, self, "y"), H, spawner, arena)
            ELSE [H |-> H, spawner |-> spawner], LAMBDA s :
       [H |-> for_count(assign_Dot(s.H, eval_to_val_Var(s.H, env, "self"),
                                   "seen", VInt(0)),
                        env, individuals),
        spawner |-> s.spawner])

\* `spawn Wasp at (self.x + 1, self.y)`
body_hatch(H, env, spawner, arena) ==
    LET self == eval_to_val_Var(H, env, "self")
    IN execute_Spawn("Wasp", eval_Dot(H, self, "x") + 1, eval_Dot(H, self, "y"),
                     H, spawner, arena)

\* Command::For over `environment` with the body `self.seen = self.seen + a.x`
RECURSIVE for_observe(_, _, _)
for_observe(H, env, individuals) ==
    IF Now(H) /\ individuals = <<>> THEN H
    ELSE LET H1 == assign_Var(H, env, "a", VObject(Head(individuals).env))
             self == eval_to_val_Var(H1, env, "self")
             H2 == assign_Dot(H1, self, "seen",
                              VInt(eval_Dot(H1, self, "seen")
                                   + eval_Dot(H1, eval_to_val_Var(H1, env, "a"), "x")))
         IN for_observe(H2, env, Tail(individuals))

\* `self.seen = 0; for a in environment { self.seen = self.seen + a.x }
\*  self.x = self.x + 10`
body_observe(H, env, individuals) ==
    LET H1 == for_observe(assign_Dot(H, eval_to_val_Var(H, env, "self"), "seen", VInt(0)),
                          env, individuals)
        self == eval_to_val_Var(H1, env, "self")
    IN assign_Dot(H1, self, "x", VInt(eval_Dot(H1, self, "x") + 10))

\* the crossover body `child.mate = parent2`
body_xmate(H, env) ==
    assign_Dot(H, eval_to_val_Var(H, env, "child"), "mate",
               eval_to_val_Var(H, env, "parent2"))

\* the crossover body `child.genes = parent2.genes`
body_xgenes(H, env) ==
    assign_Dot(H, eval_to_val_Var(H, env, "child"), "genes",
               eval_to_val_Dot(H, eval_to_val_Var(H, env, "parent2"), "genes"))

\* the crossover body `child.x = parent2.x; parent1.mark = 1`
body_xboth(H, env) ==
    LET H1 == assign_Dot(H, eval_to_val_Var(H, env, "child"), "x",
                         VInt(eval_Dot(H, eval_to_val_Var(H, env, "parent2"), "x")))
    IN assign_Dot(H1, eval_to_val_Var(H1, env, "parent1"), "mark", VInt(1))

\* Command::execute over the commands of a body
execute(body, H, env, individuals, spawner, arena) ==
    CASE body = "move" -> [H |-> body_move(H, env), spawner |-> spawner]
      [] body = "link" -> [H |-> body_link(H, env, individuals), spawner |-> spawner]
      [] body = "push" -> [H |-> body_push(H, env), spawner |-> spawner]
      [] body = "spawn" -> body_spawn(H, env, individuals, spawner, arena)
      [] body = "hatch" -> body_hatch(H, env, spawner, arena)
      [] body = "observe" -> [H |-> body_observe(H, env, individuals), spawner |-> spawner]
      [] body = "xmate" -> [H |-> body_xmate(H, env), spawner |-> spawner]
      [] body = "xgenes" -> [H |-> body_xgenes(H, env), spawner |-> spawner]
      [] body = "xboth" -> [H |-> body_xboth(H, env), spawner |-> spawner]
      [] OTHER -> [H |-> H, spawner |-> spawner]

---------------------------------------------------------------------------
(* World (types.rs, world.rs).  `arena` names the allocations made for the *)
(* world; it is not a field of the program's World.                        *)

\* World::new
World_new(id, arena) ==
    [width |-> program.env_width, height |-> program.env_height,
     individuals |-> <<>>, generation |-> 0, id |-> id, fitness |-> 0,
     record_history |-> FALSE, history |-> <<>>, arena |-> arena]

\* The SPAWN block: `cmds` lists the species of the Spawn commands it
\* executes, `spawn <species> at (0, j)` for the j-th one, counted from 0.
RECURSIVE spawn_block(_, _, _, _, _)
spawn_block(cmds, j, H, spawner, arena) ==
    IF Now(H) /\ cmds = <<>> THEN [H |-> H, spawner |-> spawner]
    ELSE With(execute_Spawn(Head(cmds), 0, j, H, spawner, arena), LAMBDA s :
         spawn_block(Tail(cmds), j + 1, s.H, s.spawner, arena))

\* World::spawn
spawn(w, H, cmds) ==
    With(spawn_block(cmds, 0, H, <<>>, w.arena), LAMBDA r :
    [w |-> [w EXCEPT !.individuals = @ \o r.spawner], H |-> r.H])

\* The routine loop of World::step: `for i in 0..self.individuals.len()`;
\* `individuals` is the agent list every routine is handed.
RECURSIVE run_routines(_, _, _, _, _)
run_routines(i, individuals, H, spawner, arena) ==
    IF Now(H) /\ i > Len(individuals) THEN [H |-> H, spawner |-> spawner]
    ELSE IF routine_call(individuals[i].species) = "act"
         THEN LET env == individuals[i].env
              IN With(execute(program.routine, assign_Var(H, env, "self", VObject(env)),
                              env, individuals, spawner, arena), LAMBDA r :
                 run_routines(i + 1, individuals, r.H, r.spawner, arena))
         ELSE run_routines(i + 1, individuals, H, spawner, arena)

\* a step that puts the agents spawned during the tick in front
step_spawn_first(w, H) ==
    With(run_routines(1, w.individuals, H, <<>>, w.arena), LAMBDA r :
    [w |-> [w EXCEPT !.history = IF w.record_history THEN Append(@, <<>>) ELSE @,
                     !.individuals = r.spawner \o @],
     H |-> r.H])

\* a step that records no frame
step_without_frame(w, H) ==
    With(run_routines(1, w.individuals, H, <<>>, w.arena), LAMBDA r :
    [w |-> [w EXCEPT !.individuals = @ \o r.spawner], H |-> r.H])

\* World::step.  The grid cache is built and cleared inside the step.
step(w, H) ==
    With(IF w.record_history
         THEN deep_clone_all(w.individuals, H, w.arena)
         ELSE [inds |-> <<>>, H |-> H], LAMBDA h :
    With(run_routines(1, w.individuals, h.H, <<>>, w.arena), LAMBDA r :
    [w |-> [w EXCEPT !.history = IF w.record_history THEN Append(@, h.inds) ELSE @,
                     !.individuals = @ \o r.spawner],
     H |-> r.H]))

\* World::calculate_fitness with the FITNESS block of the program:
\*   "x":    `return self.x`
\*   "rand": `return random(0, 2)`, `rnd` being the number drawn
calculate_fitness(H, ind, rnd) ==
    LET H1 == assign_Var(H, ind.env, "self", VObject(ind.env))
    IN [H |-> H1,
        score |-> IF program.fitness = "x"
                  THEN to_int(eval_to_val_Dot(H1, eval_to_val_Var(H1, ind.env, "self"), "x"))
                  ELSE rnd]

\* the loop of World::calculate_total_fitness; rnds[i] is the number drawn for agent i
RECURSIVE fitness_loop(_, _, _, _, _)
fitness_loop(i, individuals, H, best, rnds) ==
    IF Now(H) /\ i > Len(individuals) THEN [H |-> H, best |-> best]
    ELSE With(calculate_fitness(H, individuals[i], rnds[i]), LAMBDA f :
         fitness_loop(i + 1, individuals,
                      assign_Var(f.H, individuals[i].env, "fitness", VInt(f.score)),
                      IF f.score > best THEN f.score ELSE best, rnds))

\* World::calculate_total_fitness
calculate_total_fitness(w, H, rnds) ==
    With(fitness_loop(1, w.individuals, H, 0, rnds), LAMBDA r :
    [w |-> [w EXCEPT !.fitness = r.best], H |-> r.H])

\* The loop of World::mutate with the rule `mutation` of the MUTATE block:
\*   "move": `self.x = self.x + 1`;  "none": the block has no such rule.
\* The rule's probability is 1.0, so the body always runs.
RECURSIVE mutate_loop(_, _, _, _)
mutate_loop(i, individuals, individuals_snapshot, H) ==
    IF Now(H) /\ i > Len(individuals) THEN H
    ELSE IF program.mutation = "none"
         THEN mutate_loop(i + 1, individuals, individuals_snapshot, H)
         ELSE LET env == individuals[i].env
              IN mutate_loop(i + 1, individuals, individuals_snapshot,
                     execute(program.mutation, assign_Var(H, env, "self", VObject(env)),
                             env, individuals_snapshot, <<>>, env[1]).H)

\* World::mutate
mutate(w, H) ==
    IF w.individuals = <<>> THEN H
    ELSE mutate_loop(1, w.individuals, w.individuals, H)

---------------------------------------------------------------------------
(* The evolution engine (evolution.rs).                                    *)

\* a schema copy that carries every key of the store it copies
schema_properties_every_key(props, from, store, H, arena) ==
    deep_copy_keys(KeyOrder, from, store, H, arena)

\* The store a schema-restricted copy builds (snapshot_individuals and
\* create_next_generation hold the same code): x and y cloned, the species
\* string, the declared properties deep-copied, self set to the new
\* environment.  Every species of the explored programs is defined, so the
\* fallback for an unknown species is never taken.
RECURSIVE schema_properties(_, _, _, _, _)
schema_properties(props, from, store, H, arena) ==
    IF Now(H) /\ props = <<>> THEN [store |-> store, H |-> H]
    ELSE IF Head(props) \in DOMAIN from
         THEN With(deep_copy(from[Head(props)], H, arena), LAMBDA r :
              schema_properties(Tail(props), from, Insert(store, Head(props), r.val),
                                r.H, arena))
         ELSE schema_properties(Tail(props), from, store, H, arena)

\* a schema copy that keeps the `self` of the agent it copies
schema_copy_self_of_source(ind, H, arena) ==
    LET new_env == NewAddr(DOMAIN H.envs, arena)
        H1 == AllocEnv(H, new_env, EmptyStore)
        from == H1.envs[ind.env]
        s1 == IF "x" \in DOMAIN from THEN Insert(EmptyStore, "x", from["x"]) ELSE EmptyStore
        s2 == IF "y" \in DOMAIN from THEN Insert(s1, "y", from["y"]) ELSE s1
        s3 == Insert(s2, "species", VString(ind.species))
    IN With(schema_properties(species_properties(ind.species), from, s3, H1, arena),
            LAMBDA p :
       [ind |-> [species |-> ind.species, env |-> new_env],
        H |-> SetStore(p.H, new_env, Insert(p.store, "self", VObject(ind.env)))])

schema_copy(ind, H, arena) ==
    LET new_env == NewAddr(DOMAIN H.envs, arena)
        H1 == AllocEnv(H, new_env, EmptyStore)
        from == H1.envs[ind.env]
        s1 == IF "x" \in DOMAIN from THEN Insert(EmptyStore, "x", from["x"]) ELSE EmptyStore
        s2 == IF "y" \in DOMAIN from THEN Insert(s1, "y", from["y"]) ELSE s1
        s3 == Insert(s2, "species", VString(ind.species))
    IN With(schema_properties(species_properties(ind.species), from, s3, H1, arena),
            LAMBDA p :
       [ind |-> [species |-> ind.species, env |-> new_env],
        H |-> SetStore(p.H, new_env, Insert(p.store, "self", VObject(new_env)))])

RECURSIVE schema_copy_all(_, _, _)
schema_copy_all(inds, H, arena) ==
    IF Now(H) /\ inds = <<>> THEN [inds |-> <<>>, H |-> H]
    ELSE With(schema_copy(Head(inds), H, arena), LAMBDA h :
         With(schema_copy_all(Tail(inds), h.H, arena), LAMBDA r :
         [inds |-> <<h.ind>> \o r.inds, H |-> r.H]))

\* snapshot_individuals: called on the GUI thread (arena 0)
snapshot_individuals(individuals, H) == schema_copy_all(individuals, H, 0)

\* `for ind in .. { ind.env.write().unwrap().store.clear() }`
RECURSIVE clear_individuals(_, _)
clear_individuals(inds, H) ==
    IF Now(H) /\ inds = <<>> THEN H
    ELSE clear_individuals(Tail(inds), ClearStore(H, Head(inds).env))

RECURSIVE clear_frames(_, _)
clear_frames(frames, H) ==
    IF Now(H) /\ frames = <<>> THEN H
    ELSE clear_frames(Tail(frames), clear_individuals(Head(frames), H))

\* a teardown that stops after the first world
clear_first_world(worlds, H) ==
    IF worlds = <<>> THEN H ELSE clear_individuals(Head(worlds).individuals, H)

\* clear_generation_memory
RECURSIVE clear_generation_memory(_, _)
clear_generation_memory(worlds, H) ==
    IF Now(H) /\ worlds = <<>> THEN H
    ELSE clear_generation_memory(Tail(worlds), clear_individuals(Head(worlds).individuals, H))

\* a teardown that leaves the step history alone
clear_snapshot_individuals(snapshot, H) == clear_individuals(snapshot.individuals, H)

\* clear_snapshot_memory
clear_snapshot_memory(snapshot, H) ==
    clear_frames(snapshot.step_history, clear_individuals(snapshot.individuals, H))

\* clear_world_history: returns the worlds and the heap
RECURSIVE clear_world_history(_, _)
clear_world_history(worlds, H) ==
    IF Now(H) /\ worlds = <<>> THEN [worlds |-> <<>>, H |-> H]
    ELSE With(clear_world_history(Tail(worlds), clear_frames(Head(worlds).history, H)),
              LAMBDA r :
         [worlds |-> <<[Head(worlds) EXCEPT !.history = <<>>,
                                            !.record_history = FALSE]>> \o r.worlds,
          H |-> r.H])

\* apply_crossover with the rule `crossover` of the MUTATE block:
\*   "xmate": `child.mate = parent2`;  "xgenes": `child.genes = parent2.genes`;
\*   "none": the block has no such rule.
\* ok is FALSE when p2.individuals[j] is out of bounds (the program panics).
RECURSIVE crossover_loop(_, _, _, _)
crossover_loop(j, child, p2, H) ==
    IF Now(H) /\ j > Len(child.individuals) THEN [H |-> H, ok |-> TRUE]
    ELSE IF j > Len(p2.individuals) THEN [H |-> H, ok |-> FALSE]
    ELSE LET crossover_env == NewAddr(DOMAIN H.envs, 0)
             store == Insert(Insert(Insert(EmptyStore,
                          "parent1", VObject(child.individuals[j].env)),
                          "parent2", VObject(p2.individuals[j].env)),
                          "child", VObject(child.individuals[j].env))
         IN crossover_loop(j + 1, child, p2,
                ClearStore(execute(program.crossover, AllocEnv(H, crossover_env, store),
                                   crossover_env, <<>>, <<>>, 0).H,
                           crossover_env))

p2_idx(i, keep_count) == (i + 1) % keep_count

apply_crossover(child, worlds, i, keep_count, H) ==
    IF program.crossover = "none" THEN [H |-> H, ok |-> TRUE]
    ELSE crossover_loop(1, child, worlds[p2_idx(i, keep_count) + 1], H)

\* a selection that ignores the ranking: child i is drawn from world i
parent_idx_unranked(i, num_instances) == i % num_instances

keep_count(num_instances) == IF num_instances \div 2 > 1 THEN num_instances \div 2 ELSE 1

parent_idx(i, num_instances) == i % keep_count(num_instances)

\* The loop of create_next_generation over the child index i (from 0);
\* child i is the (first_arena + i)-th World constructed.
RECURSIVE next_gen_loop(_, _, _, _, _, _)
next_gen_loop(i, worlds, num_instances, gen, first_arena, H) ==
    IF Now(H) /\ i >= num_instances THEN [worlds |-> <<>>, H |-> H, ok |-> TRUE]
    ELSE With(schema_copy_all(worlds[parent_idx(i, num_instances) + 1].individuals,
                              H, first_arena + i), LAMBDA inds :
         With([World_new(i, first_arena + i) EXCEPT !.generation = gen,
                                                    !.individuals = inds.inds],
              LAMBDA child :
         With(IF i >= keep_count(num_instances)
              THEN apply_crossover(child, worlds, i, keep_count(num_instances), inds.H)
              ELSE [H |-> inds.H, ok |-> TRUE], LAMBDA x :
         IF ~x.ok THEN [worlds |-> <<>>, H |-> x.H, ok |-> FALSE]
         ELSE With(next_gen_loop(i + 1, worlds, num_instances, gen, first_arena,
                                 mutate(child, x.H)), LAMBDA r :
              [worlds |-> <<child>> \o r.worlds, H |-> r.H, ok |-> r.ok]))))

\* create_next_generation
create_next_generation(worlds, num_instances, gen, first_arena, H) ==
    With(next_gen_loop(0, worlds, num_instances, gen, first_arena, H), LAMBDA r :
    [worlds |-> r.worlds, ok |-> r.ok,
     H |-> IF r.ok THEN clear_generation_memory(worlds, r.H) ELSE r.H])

---------------------------------------------------------------------------
(* The programs explored (types.rs Program).  routine, fitness, mutation   *)
(* and crossover name the body of the block (see `execute`); the SPAWN     *)
(* block holds spawn_count commands, each `spawn Ant at (0, j)` or, with   *)
(* spawn_random,                                                           *)
(*   `if (random(0, 2) == 0) { spawn Ant at (0, j) } else { spawn Bee at (0, j) }` *)

Prog(n, steps, gens, routine, fitness, mutation, crossover, count, rnd) ==
    [env_width |-> 3, env_height |-> 3, env_steps |-> steps,
     generations |-> gens, instances |-> n,
     routine |-> routine, fitness |-> fitness, mutation |-> mutation,
     crossover |-> crossover, spawn_count |-> count, spawn_random |-> rnd]

\* selection: many worlds, told apart by the species drawn at spawn
SelectionPrograms ==
    {Prog(n, 0, 1, "idle", "rand", "none", x, 1, TRUE) :
        n \in 1..MaxInstances, x \in {"none", "xmate"}}

\* the agent graph: routines that link agents, grow lists and spawn; the
\* crossover that hands a parent's list to several children is explored for
\* one agent and one tick
HeapPrograms ==
    {p \in {Prog(n, steps, MaxGenerations, r, "x", m, x, count, FALSE) :
               n \in {2, 3}, steps \in 1..MaxSteps, r \in RoutineKinds \ {"idle"},
               m \in {"none", "move"}, x \in {"none", "xmate", "xgenes"},
               count \in 1..MaxAgents} :
        p.crossover = "xgenes" => (p.env_steps = 1 /\ p.spawn_count = 1)}

\* the long run that fills the snapshot log beyond its cap
LongPrograms ==
    {Prog(1, 0, HistoryCap + ExtraGenerations, "idle", "x", "move", "none", 1, FALSE)}

Programs == SelectionPrograms \cup HeapPrograms \cup LongPrograms

\* the command sequences the SPAWN block may execute
spawn_choices ==
    IF program.spawn_random
    THEN [1..program.spawn_count -> {"Ant", "Bee"}]
    ELSE {[j \in 1..program.spawn_count |-> "Ant"]}

\* main.rs: `for i in 0..num_instances { World::new; w.spawn(); push }`;
\* cmds[i + 1] is what the SPAWN block executes in world i
RECURSIVE seed_worlds(_, _, _, _)
seed_worlds(i, num_instances, cmds, H) ==
    IF Now(H) /\ i >= num_instances THEN [worlds |-> <<>>, H |-> H]
    ELSE With(spawn(World_new(i, i + 1), H, cmds[i + 1]), LAMBDA w :
         With(seed_worlds(i + 1, num_instances, cmds, w.H), LAMBDA r :
         [worlds |-> <<w.w>> \o r.worlds, H |-> r.H]))

\* the engine evaluates no grid index
NoGrid == [width |-> 3, height |-> 3, individuals |-> <<>>,
           cache |-> [some |-> FALSE, map |-> <<>>], overflow_checks |-> FALSE,
           queries |-> <<>>, results |-> <<>>]

\* the engine executes its bodies inside its own actions
NoEval == [body |-> "", pos |-> 0, st |-> "idle"]

\* the engine's thread-local cells are set and cleared inside its actions
NoThreads == <<>>

\* the worlds of the engine come from a program that parsed and validated
NoFront == [stage |-> "running"]

\* main, SimApp::new
Init ==
    /\ program \in Programs
    /\ \E cmds \in [1..program.instances -> spawn_choices] :
         With(seed_worlds(0, program.instances, cmds, [envs |-> <<>>, lists |-> <<>>]),
              LAMBDA r : /\ instances = r.worlds
                         /\ envs = r.H.envs
                         /\ lists = r.H.lists)
    /\ history = <<>>
    /\ current_gen_idx = 0
    /\ current_step_idx = 1
    /\ current_gen = 0
    /\ running = FALSE
    /\ global_best_fitness = 0
    /\ pc = "idle"
    /\ wpc = <<>>
    /\ held = {}
    /\ removed = <<>>
    /\ nworlds = program.instances
    /\ grid = NoGrid
    /\ ev = NoEval
    /\ tls = NoThreads
    /\ front = NoFront

Heap == [envs |-> envs, lists |-> lists]

SetHeap(H) == envs' = H.envs /\ lists' = H.lists

\* the Environments of the individuals of a sequence of worlds
RECURSIVE PopulationEnvs(_)
PopulationEnvs(worlds) ==
    IF worlds = <<>> THEN {}
    ELSE {Head(worlds).individuals[j].env : j \in 1..Len(Head(worlds).individuals)}
         \cup PopulationEnvs(Tail(worlds))

---------------------------------------------------------------------------
(* SimApp::run_generation (gui.rs), in the order of its code.              *)

\* lines 60-63: the configured generations are done
RunGenerationDone ==
    /\ pc = "idle"
    /\ current_gen >= program.generations
    /\ running' = FALSE
    /\ UNCHANGED <<program, envs, lists, instances, history, current_gen_idx,
                   current_step_idx, current_gen, global_best_fitness, pc, wpc,
                   held, removed, nworlds, grid, ev, tls, front>>

\* lines 65-75: count the generation, switch history recording on
RunGenerationStart ==
    /\ pc = "idle"
    /\ current_gen < program.generations
    /\ current_gen' = current_gen + 1
    /\ instances' = [i \in 1..Len(instances) |->
                        [instances[i] EXCEPT !.record_history = TRUE, !.history = <<>>]]
    /\ pc' = "par"
    /\ wpc' = [i \in 1..Len(instances) |-> 0]
    /\ held' = PopulationEnvs(instances)
    /\ removed' = <<>>
    /\ UNCHANGED <<program, envs, lists, history, current_gen_idx, current_step_idx,
                   running, global_best_fitness, nworlds, grid, ev, tls, front>>

\* lines 77-81: one world.step() of the rayon task of world i
WorldStep(i) ==
    /\ pc = "par"
    /\ wpc[i] < program.env_steps
    /\ With(step([instances[i] EXCEPT !.generation = current_gen], Heap), LAMBDA r :
            /\ instances' = [instances EXCEPT ![i] = r.w]
            /\ SetHeap(r.H))
    /\ wpc' = [wpc EXCEPT ![i] = @ + 1]
    /\ UNCHANGED <<program, history, current_gen_idx, current_step_idx, current_gen,
                   running, global_best_fitness, pc, held, removed, nworlds, grid, ev, tls, front>>

\* lines 82-91: the final frame, then calculate_total_fitness
WorldFinish(i) ==
    /\ pc = "par"
    /\ wpc[i] = program.env_steps
    /\ \E rnds \in [1..Len(instances[i].individuals) ->
                       IF program.fitness = "rand" THEN 0..1 ELSE {0}] :
         LET w == [instances[i] EXCEPT !.generation = current_gen]
         IN With(IF w.record_history
                 THEN deep_clone_all(w.individuals, Heap, w.arena)
                 ELSE [inds |-> <<>>, H |-> Heap], LAMBDA h :
            With(calculate_total_fitness(
                     [w EXCEPT !.history = IF w.record_history THEN Append(@, h.inds)
                                           ELSE @],
                     h.H, rnds), LAMBDA f :
            /\ instances' = [instances EXCEPT ![i] = f.w]
            /\ SetHeap(f.H)))
    /\ wpc' = [wpc EXCEPT ![i] = @ + 1]
    /\ UNCHANGED <<program, history, current_gen_idx, current_step_idx, current_gen,
                   running, global_best_fitness, pc, held, removed, nworlds, grid, ev, tls, front>>

\* World::take
take(w) ==
    [width |-> w.width, height |-> w.height, individuals |-> w.individuals,
     generation |-> w.generation, id |-> w.id, fitness |-> w.fitness,
     record_history |-> w.record_history, history |-> w.history, arena |-> w.arena]

\* a key that ranks the worlds by fitness ascending
sort_key_ascending(w) == w.fitness

\* the key of `indices.sort_by_key(|&i| -self.instances[i].fitness)`
sort_key(w) == 0 - w.fitness

\* slice::sort_by_key, a stable sort: index i goes behind every index
\* already placed whose key is not greater
insert_by_key(sorted, i, worlds) ==
    LET k == Cardinality({p \in 1..Len(sorted) :
                            sort_key(worlds[sorted[p]]) <= sort_key(worlds[i])})
    IN SubSeq(sorted, 1, k) \o <<i>> \o SubSeq(sorted, k + 1, Len(sorted))

RECURSIVE sort_by_key(_, _, _)
sort_by_key(sorted, i, worlds) ==
    IF i > Len(worlds) THEN sorted
    ELSE sort_by_key(insert_by_key(sorted, i, worlds), i + 1, worlds)

\* lines 108-117: a schema copy of every frame of the winner's history,
\* the frame's own stores cleared afterwards
RECURSIVE best_history(_, _)
best_history(raw_history, H) ==
    IF Now(H) /\ raw_history = <<>> THEN [frames |-> <<>>, H |-> H]
    ELSE With(snapshot_individuals(Head(raw_history), H), LAMBDA s :
         With(best_history(Tail(raw_history), clear_individuals(Head(raw_history), s.H)),
              LAMBDA r :
         [frames |-> <<s.inds>> \o r.frames, H |-> r.H]))

RECURSIVE SumFitness(_)
SumFitness(worlds) ==
    IF worlds = <<>> THEN 0 ELSE Head(worlds).fitness + SumFitness(Tail(worlds))

saturating_sub(a, b) == IF a > b THEN a - b ELSE 0

\* a ranking step that leaves the index alone when the oldest entry is dropped
RankAndRecord_without_shift ==
    /\ pc = "par"
    /\ \A i \in 1..Len(instances) : wpc[i] = program.env_steps + 1
    /\ With(sort_by_key(<<>>, 1, instances), LAMBDA indices :
       With([k \in 1..Len(indices) |-> take(instances[indices[k]])],
            LAMBDA sorted_instances :
       With(best_history(sorted_instances[1].history, Heap), LAMBDA bh :
       With(clear_world_history([sorted_instances EXCEPT ![1].history = <<>>], bh.H),
            LAMBDA cw :
       With(snapshot_individuals(cw.worlds[1].individuals, cw.H), LAMBDA si :
       With(Append(history,
                   [avg_fitness |-> SumFitness(cw.worlds) \div
                                      (IF program.instances > 1 THEN program.instances
                                       ELSE 1),
                    best_fitness |-> cw.worlds[1].fitness,
                    individuals |-> si.inds, step_history |-> bh.frames]),
            LAMBDA pushed :
       LET best == cw.worlds[1].fitness
           was_at_end == current_gen_idx >= saturating_sub(Len(history), 1)
           over == Len(pushed) > HistoryCap
           kept == IF over THEN Tail(pushed) ELSE pushed
           idx == current_gen_idx
       IN /\ instances' = cw.worlds
          /\ SetHeap(IF over THEN clear_snapshot_memory(Head(pushed), si.H) ELSE si.H)
          /\ history' = kept
          /\ removed' = IF over THEN <<Head(pushed)>> ELSE <<>>
          /\ global_best_fitness' = IF best > global_best_fitness THEN best
                                    ELSE global_best_fitness
          /\ current_gen_idx' = IF was_at_end THEN saturating_sub(Len(kept), 1) ELSE idx
          /\ current_step_idx' = IF was_at_end THEN 0 ELSE current_step_idx))))))
    /\ pc' = "breed"
    /\ UNCHANGED <<program, current_gen, running, wpc, held, nworlds, grid, ev, tls, front>>

\* lines 94-160: rank the worlds, record the winner in the snapshot log
RankAndRecord ==
    /\ pc = "par"
    /\ \A i \in 1..Len(instances) : wpc[i] = program.env_steps + 1
    /\ With(sort_by_key(<<>>, 1, instances), LAMBDA indices :
       With([k \in 1..Len(indices) |-> take(instances[indices[k]])],
            LAMBDA sorted_instances :
       With(best_history(sorted_instances[1].history, Heap), LAMBDA bh :
       With(clear_world_history([sorted_instances EXCEPT ![1].history = <<>>], bh.H),
            LAMBDA cw :
       With(snapshot_individuals(cw.worlds[1].individuals, cw.H), LAMBDA si :
       With(Append(history,
                   [avg_fitness |-> SumFitness(cw.worlds) \div
                                      (IF program.instances > 1 THEN program.instances
                                       ELSE 1),
                    best_fitness |-> cw.worlds[1].fitness,
                    individuals |-> si.inds, step_history |-> bh.frames]),
            LAMBDA pushed :
       LET best == cw.worlds[1].fitness
           was_at_end == current_gen_idx >= saturating_sub(Len(history), 1)
           over == Len(pushed) > HistoryCap
           kept == IF over THEN Tail(pushed) ELSE pushed
           idx == IF over /\ current_gen_idx > 0 THEN current_gen_idx - 1
                  ELSE current_gen_idx
       IN /\ instances' = cw.worlds
          /\ SetHeap(IF over THEN clear_snapshot_memory(Head(pushed), si.H) ELSE si.H)
          /\ history' = kept
          /\ removed' = IF over THEN <<Head(pushed)>> ELSE <<>>
          /\ global_best_fitness' = IF best > global_best_fitness THEN best
                                    ELSE global_best_fitness
          /\ current_gen_idx' = IF was_at_end THEN saturating_sub(Len(kept), 1) ELSE idx
          /\ current_step_idx' = IF was_at_end THEN 0 ELSE current_step_idx))))))
    /\ pc' = "breed"
    /\ UNCHANGED <<program, current_gen, running, wpc, held, nworlds, grid, ev, tls, front>>

\* lines 166-171: the next generation replaces the worlds
CreateNextGeneration ==
    /\ pc = "breed"
    /\ With(create_next_generation(instances, program.instances, current_gen,
                                    nworlds + 1, Heap), LAMBDA r :
            /\ SetHeap(r.H)
            /\ instances' = IF r.ok THEN r.worlds ELSE instances
            /\ pc' = IF r.ok THEN "idle" ELSE "panic")
    /\ nworlds' = nworlds + program.instances
    /\ UNCHANGED <<program, history, current_gen_idx, current_step_idx, current_gen,
                   running, global_best_fitness, wpc, held, removed, grid, ev, tls, front>>

Next ==
    \/ RunGenerationDone
    \/ RunGenerationStart
    \/ \E i \in 1..Len(instances) : WorldStep(i)
    \/ \E i \in 1..Len(instances) : WorldFinish(i)
    \/ RankAndRecord
    \/ CreateNextGeneration

Spec == Init /\ [][Next]_vars

---------------------------------------------------------------------------
(* Selection (C1) and ranking (C2).                                        *)

\* keep = max(1, instances / 2), written from the statement
Keep == IF program.instances \div 2 >= 1 THEN program.instances \div 2 ELSE 1

\* agent j of `child` (in the heap after the step) is a copy of agent j of
\* `parent` (in the heap before it): same species, same position, up to what
\* the MUTATE block rewrites
ClonedAgent(c, q) ==
    /\ c.species = q.species
    /\ envs'[c.env]["species"] = VString(q.species)
    /\ envs'[c.env]["y"] = envs[q.env]["y"]
    /\ program.mutation = "none" => envs'[c.env]["x"] = envs[q.env]["x"]
    /\ c.env # q.env

ClonedFrom(child, parent) ==
    /\ Len(child.individuals) = Len(parent.individuals)
    /\ \A j \in 1..Len(child.individuals) :
           ClonedAgent(child.individuals[j], parent.individuals[j])

\* C1: when run_generation breeds the next generation, it produces exactly
\* `instances` child worlds, and the agents of child i are cloned from the
\* world ranked i mod keep of the generation that just finished, where
\* keep = max(1, instances / 2).
C1_ChildrenClonedFromRank ==
    [][(pc = "breed" /\ pc' = "idle") =>
          /\ Len(instances') = program.instances
          /\ \A i \in 0..(program.instances - 1) :
                 /\ instances'[i + 1].id = i
                 /\ ClonedFrom(instances'[i + 1], instances[(i % Keep) + 1])]_vars

\* a generation was bred from four worlds whose two best differ in species,
\* so that the rank a child is drawn from shows in the child
C1_Witness ==
    /\ pc = "idle"
    /\ current_gen = 1
    /\ program.instances = 4
    /\ instances[1].individuals[1].species # instances[2].individuals[1].species
    /\ instances[3].individuals[1].species = instances[1].individuals[1].species
    /\ instances[4].individuals[1].species = instances[2].individuals[1].species

SameWorld(a, b) ==
    /\ a.id = b.id
    /\ a.individuals = b.individuals
    /\ a.fitness = b.fitness
    /\ a.generation = b.generation
    /\ a.width = b.width /\ a.height = b.height

\* C2: after the parallel phase the worlds are a permutation of what they
\* were (none lost, none duplicated), in descending order of fitness, and
\* worlds of equal fitness keep the order they had before the sort.
C2_StableDescendingSort ==
    [][(pc = "par" /\ pc' = "breed") =>
          /\ Len(instances') = Len(instances)
          /\ \E p \in Permutations(1..Len(instances)) :
                 /\ \A k \in 1..Len(instances) : SameWorld(instances'[k], instances[p[k]])
                 /\ \A k, l \in 1..Len(instances) :
                        k < l => /\ instances[p[k]].fitness >= instances[p[l]].fitness
                                 /\ instances[p[k]].fitness = instances[p[l]].fitness
                                       => p[k] < p[l]]_vars

\* ranked worlds: one moved ahead of a world constructed before it, and two
\* of equal fitness
C2_Witness ==
    /\ pc = "breed"
    /\ \E k \in 1..(Len(instances) - 1) : instances[k].id > instances[k + 1].id
    /\ \E k \in 1..(Len(instances) - 1) :
           /\ instances[k].fitness = instances[k + 1].fitness
           /\ instances[k].id < instances[k + 1].id

---------------------------------------------------------------------------
(* The snapshot log (C3) and the teardown of the old population (C5).      *)

StoresEmpty(inds) == \A j \in 1..Len(inds) : envs[inds[j].env] = EmptyStore

\* In the long run the agent moves one cell per generation and fitness is
\* its x, so the snapshot of generation g has best_fitness g - 1.
GenerationOf(snapshot) == snapshot.best_fitness + 1

\* C3: the snapshot log never holds more than 100 entries; after each
\* run_generation it holds one entry per completed generation up to 100,
\* so exactly 100 once more than 100 generations have completed, and these
\* are the most recent generations in order; the entry dropped on overflow
\* is the oldest one, and the stores of its individuals and of the
\* individuals of its step history are empty.
C3_SnapshotLogCapped ==
    /\ Len(history) <= HistoryCap
    /\ pc = "idle" =>
          Len(history) = IF current_gen > HistoryCap THEN HistoryCap ELSE current_gen
    /\ (program \in LongPrograms /\ pc \in {"breed", "idle"}) =>
          \A k \in 1..Len(history) :
             GenerationOf(history[k]) = current_gen - Len(history) + k
    /\ removed # <<>> =>
          /\ Len(history) = HistoryCap
          /\ program \in LongPrograms =>
                GenerationOf(removed[1]) = current_gen - HistoryCap
          /\ StoresEmpty(removed[1].individuals)
          /\ \A f \in 1..Len(removed[1].step_history) :
                 StoresEmpty(removed[1].step_history[f])

\* two generations beyond the cap have completed; the snapshot just dropped
\* had individuals and a step history
C3_Witness ==
    /\ pc = "idle"
    /\ current_gen = HistoryCap + 2
    /\ Len(history) = HistoryCap
    /\ removed # <<>>
    /\ removed[1].individuals # <<>>
    /\ removed[1].step_history # <<>>
    /\ removed[1].step_history[1] # <<>>

\* C5: when run_generation has completed a generation, every Environment
\* that belonged to an agent of any world of the population the call
\* started with has an empty store.
C5_PreviousPopulationCleared ==
    (pc = "idle" /\ current_gen >= 1) => \A e \in held : envs[e] = EmptyStore

\* a second generation has completed over several worlds, and more than one
\* agent was held from before the call
C5_Witness ==
    /\ pc = "idle"
    /\ current_gen = 2
    /\ Len(instances) >= 2
    /\ Cardinality(held) >= 2
    /\ \A e \in held : envs[e] = EmptyStore

---------------------------------------------------------------------------
(* Reachability in the heap.  A node is <<"env", address>> or              *)
(* <<"list", address>>; an Object value refers to an Environment, a List   *)
(* value to a List.                                                        *)

Refs(val) ==
    IF val.t = "Object" THEN {<<"env", val.v>>}
    ELSE IF val.t = "List" THEN {<<"list", val.v>>}
    ELSE {}

\* what a node holds in the heap H
Content(H, node) == IF node[1] = "env" THEN H.envs[node[2]] ELSE H.lists[node[2]]

Succ(H, node) == UNION {Refs(Content(H, node)[k]) : k \in DOMAIN Content(H, node)}

RECURSIVE Reach(_, _, _)
Reach(H, frontier, seen) ==
    IF frontier = {} THEN seen
    ELSE Reach(H, (UNION {Succ(H, n) : n \in frontier}) \ (seen \cup frontier),
               seen \cup frontier)

EnvNodes(inds) == {<<"env", inds[j].env>> : j \in 1..Len(inds)}

\* every Environment and List reachable from the agents of a world
ReachWorld(w) == Reach(Heap, EnvNodes(w.individuals), {})

\* every Environment and List reachable from the individuals of the
\* snapshot log, those of the step histories included
ReachSnapshots ==
    Reach(Heap,
          UNION {EnvNodes(history[g].individuals) \cup
                 UNION {EnvNodes(history[g].step_history[f]) :
                          f \in 1..Len(history[g].step_history)} :
                 g \in 1..Len(history)},
          {})

---------------------------------------------------------------------------
(* Isolation of the new generation (C4, C6, C7).                           *)

\* C4: after run_generation, a write performed through an individual of the
\* new generation (the routines and the fitness evaluation of the next
\* parallel phase write through them) changes no value observable through
\* an individual of the snapshot log: every Environment and List reachable
\* from the log holds after the write what it held before.
C4_SnapshotsUnchangedByNewGeneration ==
    [][(pc = "par" /\ pc' = "par") =>
          \A n \in ReachSnapshots :
             Content([envs |-> envs', lists |-> lists'], n) = Content(Heap, n)]_vars

\* C6: after a generation completes, no Environment of an agent of the
\* previous population is reachable from the agents of the new worlds.
C6_NoPreviousEnvironmentReachable ==
    (pc = "idle" /\ current_gen >= 1) =>
        \A i \in 1..Len(instances) :
           ReachWorld(instances[i]) \cap {<<"env", e>> : e \in held} = {}

\* C7: at the start of every parallel phase, what is reachable from the
\* agents of one world is disjoint from what is reachable from the agents
\* of any other world.
C7_WorldsDisjointAtParallelStart ==
    (pc = "par" /\ \A i \in 1..Len(instances) : wpc[i] = 0) =>
        \A i, j \in 1..Len(instances) :
           i # j => ReachWorld(instances[i]) \cap ReachWorld(instances[j]) = {}

---------------------------------------------------------------------------
(* History frames (C8) and the order of a tick (C9).                       *)

\* the Lists a store owns: those reached from it through List values alone
RECURSIVE OwnLists(_, _, _)
OwnLists(H, frontier, seen) ==
    IF frontier = {} THEN seen
    ELSE OwnLists(H,
                  {n \in UNION {Succ(H, m) : m \in frontier} : n[1] = "list"}
                      \ (seen \cup frontier),
                  seen \cup frontier)

ListsOfStore(H, e) ==
    OwnLists(H, {n \in Succ(H, <<"env", e>>) : n[1] = "list"}, {})

LiveEnvs(w) == {w.individuals[j].env : j \in 1..Len(w.individuals)}

FrameEnvs(w) ==
    UNION {{w.history[f][j].env : j \in 1..Len(w.history[f])} : f \in 1..Len(w.history)}

\* C8: during the parallel phase no Environment of a frame of a world's
\* history is an Environment of that world's agent list, and a step or a
\* fitness evaluation of any world leaves the store of every Environment of
\* every recorded frame, and every List that store owns, as it was.
C8_FramesDetachedFromLiveAgents ==
    [][pc = "par" =>
          \A i \in 1..Len(instances) :
             /\ FrameEnvs(instances[i]) \cap LiveEnvs(instances[i]) = {}
             /\ pc' = "par" =>
                   \A e \in FrameEnvs(instances[i]) :
                      /\ envs'[e] = envs[e]
                      /\ \A l \in ListsOfStore(Heap, e) : lists'[l[2]] = lists[l[2]]]_vars

\* a frame recorded before a tick of the routine `push(self.genes, 1)`: the
\* live agent's list has grown, the list of its copy in the frame has not
C8_Witness ==
    /\ pc = "par"
    /\ program.routine = "push"
    /\ \E i \in 1..Len(instances) :
          /\ Len(instances[i].history) >= 2
          /\ lists[envs[instances[i].history[1][1].env]["genes"].v] = <<>>
          /\ lists[envs[instances[i].history[2][1].env]["genes"].v] = <<VInt(1)>>
          /\ lists[envs[instances[i].individuals[1].env]["genes"].v] = <<VInt(1), VInt(1)>>

\* the agents whose routine spawns in this tick: `if (self.x == 0) { spawn .. }`
Spawners(inds) ==
    IF program.routine = "spawn"
    THEN SelectSeq(inds, LAMBDA a : routine_call(a.species) = "act"
                                    /\ envs[a.env]["x"] = VInt(0))
    ELSE <<>>

\* world i takes a World::step in this step of the model
Stepped(i) == pc = "par" /\ wpc'[i] = wpc[i] + 1 /\ wpc'[i] <= program.env_steps

\* C9: in one World::step the agents present at the start of the tick keep
\* their places and each runs its routine against exactly those agents (the
\* `for a in environment` loop counts them, and ends on the last of them);
\* the agents spawned during the tick have not run (no self, no seen), and
\* are appended behind the others in the order in which their spawners ran,
\* which is the insertion order.
C9_TickOrderAndDeferredSpawns ==
    [][\A i \in 1..Len(instances) :
          Stepped(i) =>
             LET old == instances[i].individuals
                 new == instances'[i].individuals
                 sp == Spawners(old)
             IN /\ Len(new) = Len(old) + Len(sp)
                /\ SubSeq(new, 1, Len(old)) = old
                /\ \A k \in 1..Len(sp) :
                       /\ new[Len(old) + k].env \notin DOMAIN envs
                       /\ envs'[new[Len(old) + k].env]["y"] = envs[sp[k].env]["y"]
                       /\ DOMAIN envs'[new[Len(old) + k].env]
                             = {"species", "x", "y", "mate", "genes"}
                /\ program.routine = "spawn" =>
                      \A j \in 1..Len(old) :
                         envs'[old[j].env]["seen"] = VInt(Len(old))
                /\ program.routine = "link" =>
                      \A j \in 1..Len(old) :
                         envs[old[j].env]["mate"] = VInt(0) =>
                            envs'[old[j].env]["mate"] = VObject(old[Len(old)].env)]_vars

\* two ticks of the spawning routine over two agents: six agents, the four
\* that were present at the second tick counted four, the two spawned in it
\* have not run and stand last, in the order of their spawners
C9_Witness ==
    /\ pc = "par"
    /\ program.routine = "spawn"
    /\ \E i \in 1..Len(instances) :
          LET inds == instances[i].individuals
          IN /\ wpc[i] = 2
             /\ Len(inds) = 6
             /\ \A j \in 1..4 : envs[inds[j].env]["seen"] = VInt(4)
             /\ \A j \in 5..6 : "seen" \notin DOMAIN envs[inds[j].env]
             /\ envs[inds[5].env]["y"] = VInt(0)
             /\ envs[inds[6].env]["y"] = VInt(1)

---------------------------------------------------------------------------
(* Grid indexing: Exp::eval_to_val on `environment[x][y]` (eval.rs).       *)
(* Here an agent is its position and its place in the agent list; the      *)
(* Object the lookup answers with is named by that place.                  *)

I32Max == 2147483647
I32Min == (0 - I32Max) - 1

\* i32 `a + b` does not fit
overflows(a, b) == (b > 0 /\ a > I32Max - b) \/ (b < 0 /\ a < I32Min - b)

\* i32 `a + b` where the build does not check: two's complement
wrapping_add(a, b) ==
    IF b > 0 /\ a > I32Max - b THEN (a + I32Min) + (b + I32Min)
    ELSE IF b < 0 /\ a < I32Min - b THEN (a - I32Min) + (b - I32Min)
    ELSE a + b

\* i32 `a % b` for b > 0: the remainder has the sign of a
rem(a, b) == IF a >= 0 THEN a % b ELSE 0 - ((0 - (a + b)) % b)

\* `((v % size) + size) % size`; with overflow checks (a debug build) an
\* overflowing `+` panics, without them (a release build) it wraps
wrap(v, size, overflow_checks) ==
    IF overflows(rem(v, size), size) /\ overflow_checks
    THEN [panic |-> TRUE, v |-> 0]
    ELSE [panic |-> FALSE, v |-> rem(wrapping_add(rem(v, size), size), size)]

Panicked == [t |-> "panic", v |-> 0]

\* World::build_grid_cache: no cache for fewer than two agents; a later
\* agent replaces an earlier one at the same (x, y)
build_grid_cache(individuals) ==
    IF Len(individuals) <= 1 THEN [some |-> FALSE, map |-> <<>>]
    ELSE [some |-> TRUE,
          map |-> [q \in {<<individuals[j].x, individuals[j].y>> :
                            j \in 1..Len(individuals)} |->
                     CHOOSE j \in 1..Len(individuals) :
                        /\ <<individuals[j].x, individuals[j].y>> = q
                        /\ \A i \in 1..Len(individuals) :
                              <<individuals[i].x, individuals[i].y>> = q => i <= j]]

\* the linear scan `for ind in individuals`: the first agent whose wrapped
\* position is the wrapped index
RECURSIVE scan(_, _, _, _, _, _, _)
scan(individuals, j, wrapped_x, wrapped_y, width, height, overflow_checks) ==
    IF j > Len(individuals) THEN VInt(0)
    ELSE IF wrap(individuals[j].x, width, overflow_checks).panic THEN Panicked
    ELSE IF wrap(individuals[j].x, width, overflow_checks).v # wrapped_x
         THEN scan(individuals, j + 1, wrapped_x, wrapped_y, width, height,
                   overflow_checks)
    ELSE IF wrap(individuals[j].y, height, overflow_checks).panic THEN Panicked
    ELSE IF wrap(individuals[j].y, height, overflow_checks).v # wrapped_y
         THEN scan(individuals, j + 1, wrapped_x, wrapped_y, width, height,
                   overflow_checks)
    ELSE VObject(j)

\* Value::GridRow(x) indexed by y: the answer, and the wrapped coordinates
eval_to_val_GridCell(x, y, g) ==
    LET wx == wrap(x, g.width, g.overflow_checks)
        wy == wrap(y, g.height, g.overflow_checks)
    IN IF wx.panic \/ wy.panic
       THEN [val |-> Panicked, wrapped_x |-> 0, wrapped_y |-> 0]
       ELSE [val |-> IF g.cache.some /\ <<wx.v, wy.v>> \in DOMAIN g.cache.map
                     THEN VObject(g.cache.map[<<wx.v, wy.v>>])
                     ELSE scan(g.individuals, 1, wx.v, wy.v, g.width, g.height,
                               g.overflow_checks),
             wrapped_x |-> wx.v, wrapped_y |-> wy.v]

\* the inputs explored
MaxGridAgents == 2
GridWidths == {3, 1073741824, I32Max}
GridHeights == {2, I32Max}
GridColumns == {-4, -1, 0, 2, 5, 1073741823, 2147483646}
GridRows == {-1, 0, 1}
GridPositions == {[x |-> 0, y |-> 0], [x |-> 2, y |-> 1], [x |-> 2147483646, y |-> 0]}

GridAgentLists == UNION {[1..n -> GridPositions] : n \in 0..MaxGridAgents}

\* a and b differ by a multiple of size (size > 0)
Congruent(a, b, size) ==
    (IF a >= 0 THEN a % size ELSE (size - 1) - ((0 - (a + 1)) % size))
      = (IF b >= 0 THEN b % size ELSE (size - 1) - ((0 - (b + 1)) % size))

\* One world's thread with its dimensions and agent list set, the grid
\* cache built from the list or absent, and two index expressions
\* environment[x][y] whose coordinates differ by multiples of the
\* dimensions waiting to be evaluated.
InitGrid ==
    /\ \E width \in GridWidths, height \in GridHeights, individuals \in GridAgentLists,
          cached \in BOOLEAN, overflow_checks \in BOOLEAN,
          x1 \in GridColumns, x2 \in GridColumns, y1 \in GridRows, y2 \in GridRows :
          /\ Congruent(x1, x2, width)
          /\ Congruent(y1, y2, height)
          /\ grid = [width |-> width, height |-> height, individuals |-> individuals,
                     cache |-> IF cached THEN build_grid_cache(individuals)
                               ELSE [some |-> FALSE, map |-> <<>>],
                     overflow_checks |-> overflow_checks,
                     queries |-> <<<<x1, y1>>, <<x2, y2>>>>, results |-> <<>>]
    /\ program = Prog(1, 0, 0, "idle", "x", "none", "none", 0, FALSE)
    /\ envs = <<>>
    /\ lists = <<>>
    /\ instances = <<>>
    /\ history = <<>>
    /\ current_gen_idx = 0
    /\ current_step_idx = 1
    /\ current_gen = 0
    /\ running = FALSE
    /\ global_best_fitness = 0
    /\ pc = "eval"
    /\ wpc = <<>>
    /\ held = {}
    /\ removed = <<>>
    /\ nworlds = 0
    /\ ev = NoEval
    /\ tls = NoThreads
    /\ front = NoFront

\* the next index expression is evaluated
EvalGridCell ==
    /\ pc = "eval"
    /\ Len(grid.results) < Len(grid.queries)
    /\ grid' = [grid EXCEPT !.results =
                   Append(@, eval_to_val_GridCell(grid.queries[Len(grid.results) + 1][1],
                                                  grid.queries[Len(grid.results) + 1][2],
                                                  grid))]
    /\ UNCHANGED <<program, envs, lists, instances, history, current_gen_idx,
                   current_step_idx, current_gen, running, global_best_fitness,
                   pc, wpc, held, removed, nworlds, ev, tls, front>>

NextGrid == EvalGridCell

SpecGrid == InitGrid /\ [][NextGrid]_vars

\* C10: for dimensions W, H > 0, environment[x][y] and
\* environment[x + k*W][y + m*H], evaluated against the same agent list and
\* grid cache, give the same answer (the same agent, or Int(0) both times),
\* and the wrapped coordinates lie in [0, W) x [0, H).
C10_ToroidalIndexing ==
    Len(grid.results) = 2 =>
        /\ grid.results[1].val = grid.results[2].val
        /\ \A r \in 1..2 :
              /\ grid.results[r].val # Panicked
              /\ grid.results[r].wrapped_x \in 0..(grid.width - 1)
              /\ grid.results[r].wrapped_y \in 0..(grid.height - 1)

---------------------------------------------------------------------------
(* The evaluator on expression trees (eval.rs): Exp::eval, the integer     *)
(* path, Exp::eval_to_val, the value path, and run_builtin.  An evaluation *)
(* answers [st, v, H]: st is "ok", or how the thread ended ("panic": an    *)
(* arithmetic panic; "stack": the call stack is exhausted), v the integer  *)
(* or Value, H the heap afterwards.  d counts the nested calls.            *)

\* the nested evaluator calls a thread's stack holds
StackLimit == 16

VBool(b) == [t |-> "Bool", v |-> b]

EInt(n) == [k |-> "Int", n |-> n]
EBool(b) == [k |-> "Bool", b |-> b]
EString(s) == [k |-> "StringLiteral", s |-> s]
EVar(name) == [k |-> "Var", name |-> name]
EDot(obj, field) == [k |-> "Dot", obj |-> obj, field |-> field]
EBinaryOp(left, op, right) == [k |-> "BinaryOp", left |-> left, op |-> op, right |-> right]
ECall(name, args) == [k |-> "Call", name |-> name, args |-> args]
EIndex(list, idx) == [k |-> "Index", list |-> list, idx |-> idx]
EList(items) == [k |-> "List", items |-> items]

Ok(v, H) == [st |-> "ok", v |-> v, H |-> H]
Ended(st, H) == [st |-> st, v |-> 0, H |-> H]

\* continue with K on the outcome r unless the thread has ended
Then(r, K(_)) == IF r.st = "ok" THEN K(r) ELSE Ended(r.st, r.H)

\* i32 `a - b` does not fit
sub_overflows(a, b) == (b < 0 /\ a > I32Max + b) \/ (b > 0 /\ a < I32Min + b)

\* two's complement `a - b`
wrapping_sub(a, b) ==
    IF b < 0 /\ a > I32Max + b THEN (a + I32Min) - (b - I32Min)
    ELSE IF b > 0 /\ a < I32Min + b THEN (a - I32Min) - (b + I32Min)
    ELSE a - b

\* two's complement `a * b`, by doubling
RECURSIVE wrapping_mul(_, _)
wrapping_mul(a, b) ==
    IF b = 0 THEN 0
    ELSE IF b = I32Min THEN (IF a % 2 = 1 THEN I32Min ELSE 0)
    ELSE IF b < 0 THEN wrapping_sub(0, wrapping_mul(a, 0 - b))
    ELSE wrapping_add(wrapping_mul(wrapping_add(a, a), b \div 2),
                      IF b % 2 = 1 THEN a ELSE 0)

\* i32 `a / b` for b # 0 and not (a = i32::MIN and b = -1): rounds toward zero
i32_div(a, b) ==
    IF b = I32Min THEN (IF a = I32Min THEN 1 ELSE 0)
    ELSE IF b = 1 THEN a
    ELSE LET B == IF b < 0 THEN 0 - b ELSE b
         IN IF a = I32Min
            THEN LET m == (I32Max \div B) + (IF I32Max % B = B - 1 THEN 1 ELSE 0)
                 IN IF b > 0 THEN 0 - m ELSE m
            ELSE LET m == (IF a < 0 THEN 0 - a ELSE a) \div B
                 IN IF (a < 0) = (b < 0) THEN m ELSE 0 - m

\* i32 `a % b`, same operands: the remainder of the division above
i32_rem(a, b) == a - (i32_div(a, b) * b)

\* i32 `a * b` does not fit
mul_overflows(a, b) ==
    /\ a # 0
    /\ b # 0
    /\ \/ (a = 0 - 1 /\ b = I32Min)
       \/ (b = 0 - 1 /\ a = I32Min)
       \/ /\ ~(a = 0 - 1 /\ b = I32Min)
          /\ ~(b = 0 - 1 /\ a = I32Min)
          /\ i32_div(wrapping_mul(a, b), b) # a

\* Exp::eval, BinaryOp: `match op.as_str()`.  +, - and * panic on overflow
\* where the build checks it and wrap where it does not; / and % panic on
\* i32::MIN / -1 in every build.
binary_op(left_val, op, right_val, overflow_checks, H) ==
    CASE op = "+" -> IF overflows(left_val, right_val) /\ overflow_checks
                     THEN Ended("panic", H)
                     ELSE Ok(wrapping_add(left_val, right_val), H)
      [] op = "-" -> IF sub_overflows(left_val, right_val) /\ overflow_checks
                     THEN Ended("panic", H)
                     ELSE Ok(wrapping_sub(left_val, right_val), H)
      [] op = "*" -> IF mul_overflows(left_val, right_val) /\ overflow_checks
                     THEN Ended("panic", H)
                     ELSE Ok(wrapping_mul(left_val, right_val), H)
      [] op = "/" -> IF right_val = 0 THEN Ok(0, H)
                     ELSE IF left_val = I32Min /\ right_val = 0 - 1 THEN Ended("panic", H)
                     ELSE Ok(i32_div(left_val, right_val), H)
      [] op = "%" -> IF right_val = 0 THEN Ok(0, H)
                     ELSE IF left_val = I32Min /\ right_val = 0 - 1 THEN Ended("panic", H)
                     ELSE Ok(i32_rem(left_val, right_val), H)
      [] OTHER -> Ok(0, H)

\* `store.get(name)` of the environment at address e
Get(H, e, name) ==
    IF name \in DOMAIN H.envs[e] THEN [some |-> TRUE, val |-> H.envs[e][name]]
    ELSE [some |-> FALSE, val |-> VInt(0)]

\* `idx as usize` indexes the list: a negative idx becomes a huge index
InRange(idx, items) == idx >= 0 /\ idx < Len(items)

\* get_at's scan `for ind in individuals`: the first agent whose stored
\* position is (x, y)
RECURSIVE get_at_scan(_, _, _, _)
get_at_scan(individuals, H, x, y) ==
    IF individuals = <<>> THEN VInt(0)
    ELSE IF /\ to_int(Get(H, Head(individuals).env, "x").val) = x
            /\ to_int(Get(H, Head(individuals).env, "y").val) = y
         THEN VObject(Head(individuals).env)
         ELSE get_at_scan(Tail(individuals), H, x, y)

Min(a, b) == IF a < b THEN a ELSE b

\* `(n as f64).sqrt() as i32`, for the distances of the positions explored
Isqrt(n) == CHOOSE r \in 0..n : r * r <= n /\ (r + 1) * (r + 1) > n

\* C is the context of an evaluation: the environment `env`, the agent list
\* `individuals`, the number `rnd` the generator draws, and whether the
\* build checks arithmetic overflow.  The thread holds no grid cache.
RECURSIVE Exp_eval(_, _, _, _), Exp_eval_to_val(_, _, _, _),
          run_builtin(_, _, _, _), eval_items(_, _, _, _), eval_ints(_, _, _, _)

\* Exp::eval
Exp_eval(e, C, H, d) ==
    IF d > StackLimit THEN Ended("stack", H)
    ELSE CASE e.k = "Int" -> Ok(e.n, H)
           [] e.k = "Bool" -> Ok(IF e.b THEN 1 ELSE 0, H)
           [] e.k = "Var" ->
                IF Get(H, C.env, e.name).some
                THEN Ok(to_int(Get(H, C.env, e.name).val), H)
                ELSE IF Get(H, C.env, "self").val.t = "Object"
                THEN Ok(to_int(Get(H, Get(H, C.env, "self").val.v, e.name).val), H)
                ELSE Ok(0, H)
           [] e.k = "Dot" ->
                Then(Exp_eval_to_val(e.obj, C, H, d + 1), LAMBDA o :
                Ok(eval_Dot(o.H, o.v, e.field), o.H))
           [] e.k = "BinaryOp" ->
                Then(Exp_eval(e.left, C, H, d + 1), LAMBDA l :
                Then(Exp_eval(e.right, C, l.H, d + 1), LAMBDA r :
                binary_op(l.v, e.op, r.v, C.overflow_checks, r.H)))
           [] e.k = "Call" ->
                IF e.name = "random" /\ Len(e.args) = 2
                THEN Then(Exp_eval(e.args[1], C, H, d + 1), LAMBDA min :
                     Then(Exp_eval(e.args[2], C, min.H, d + 1), LAMBDA max :
                     Ok(IF max.v > min.v THEN min.v + (C.rnd % (max.v - min.v))
                        ELSE min.v, max.H)))
                ELSE Then(Exp_eval_to_val(e, C, H, d + 1), LAMBDA r :
                     Ok(to_int(r.v), r.H))
           [] e.k = "Index" ->
                Then(Exp_eval_to_val(e.list, C, H, d + 1), LAMBDA l :
                Then(Exp_eval(e.idx, C, l.H, d + 1), LAMBDA i :
                Ok(IF l.v.t = "List" /\ InRange(i.v, i.H.lists[l.v.v])
                   THEN to_int(i.H.lists[l.v.v][i.v + 1]) ELSE 0, i.H)))
           [] OTHER -> Ok(0, H)

\* the loop over the items of a list literal, or over arguments
eval_items(items, C, H, d) ==
    IF items = <<>> THEN Ok(<<>>, H)
    ELSE Then(Exp_eval_to_val(Head(items), C, H, d), LAMBDA h :
         Then(eval_items(Tail(items), C, h.H, d), LAMBDA r :
         Ok(<<h.v>> \o r.v, r.H)))

\* the arguments a draw_* built-in evaluates on the integer path
eval_ints(items, C, H, d) ==
    IF items = <<>> THEN Ok(<<>>, H)
    ELSE Then(Exp_eval(Head(items), C, H, d), LAMBDA h :
         Then(eval_ints(Tail(items), C, h.H, d), LAMBDA r :
         Ok(<<h.v>> \o r.v, r.H)))

\* Exp::eval_to_val.  Indexing Value::Environment and Value::GridRow is
\* eval_to_val_GridCell above; the bodies evaluated here index lists only.
Exp_eval_to_val(e, C, H, d) ==
    IF d > StackLimit THEN Ended("stack", H)
    ELSE CASE e.k = "Int" -> Ok(VInt(e.n), H)
           [] e.k = "Bool" -> Ok(VBool(e.b), H)
           [] e.k = "StringLiteral" -> Ok(VString(e.s), H)
           [] e.k = "Var" -> Ok(eval_to_val_Var(H, C.env, e.name), H)
           [] e.k = "Dot" ->
                Then(Exp_eval_to_val(e.obj, C, H, d + 1), LAMBDA o :
                Ok(eval_to_val_Dot(o.H, o.v, e.field), o.H))
           [] e.k = "List" ->
                Then(eval_items(e.items, C, H, d + 1), LAMBDA r :
                With(AllocList(r.H, NewAddr(DOMAIN r.H.lists, C.env[1]), r.v), LAMBDA a :
                Ok(a.val, a.H)))
           [] e.k = "Index" ->
                Then(Exp_eval_to_val(e.list, C, H, d + 1), LAMBDA l :
                Then(Exp_eval(e.idx, C, l.H, d + 1), LAMBDA i :
                Ok(IF l.v.t = "List" /\ InRange(i.v, i.H.lists[l.v.v])
                   THEN i.H.lists[l.v.v][i.v + 1]
                   ELSE IF l.v.t = "Environment" THEN [t |-> "GridRow", v |-> i.v]
                   ELSE VInt(0), i.H)))
           [] e.k = "Call" -> run_builtin(e, C, H, d + 1)
           [] OTHER -> Then(Exp_eval(e, C, H, d + 1), LAMBDA r : Ok(VInt(r.v), r.H))

\* Exp::run_builtin, for the call expression e.  The draw_* built-ins add to
\* the thread's DRAW_COMMANDS (see the passes below) and answer Int(0).
run_builtin(e, C, H, d) ==
    IF d > StackLimit THEN Ended("stack", H)
    ELSE CASE e.name = "len" ->
                IF Len(e.args) >= 1
                THEN Then(Exp_eval_to_val(e.args[1], C, H, d + 1), LAMBDA l :
                     Ok(VInt(IF l.v.t = "List" THEN Len(l.H.lists[l.v.v]) ELSE 0), l.H))
                ELSE Ok(VInt(0), H)
           [] e.name = "push" ->
                IF Len(e.args) >= 2
                THEN Then(Exp_eval_to_val(e.args[1], C, H, d + 1), LAMBDA l :
                     IF l.v.t = "List"
                     THEN Then(Exp_eval_to_val(e.args[2], C, l.H, d + 1), LAMBDA value :
                          Ok(VInt(0), run_builtin_push(value.H, l.v, value.v)))
                     ELSE Ok(VInt(0), l.H))
                ELSE Ok(VInt(0), H)
           [] e.name = "pop" ->
                IF Len(e.args) >= 1
                THEN Then(Exp_eval_to_val(e.args[1], C, H, d + 1), LAMBDA l :
                     IF l.v.t = "List" /\ l.H.lists[l.v.v] # <<>>
                     THEN Ok(l.H.lists[l.v.v][Len(l.H.lists[l.v.v])],
                             [l.H EXCEPT !.lists[l.v.v] = SubSeq(@, 1, Len(@) - 1)])
                     ELSE Ok(VInt(0), l.H))
                ELSE Ok(VInt(0), H)
           [] e.name = "get_at" ->
                IF Len(e.args) >= 2
                THEN Then(Exp_eval(e.args[1], C, H, d + 1), LAMBDA x :
                     Then(Exp_eval(e.args[2], C, x.H, d + 1), LAMBDA y :
                     Ok(get_at_scan(C.individuals, y.H, x.v, y.v), y.H)))
                ELSE Ok(VInt(0), H)
           [] e.name = "dist" ->
                IF Len(e.args) >= 2
                THEN Then(Exp_eval_to_val(e.args[1], C, H, d + 1), LAMBDA obj1 :
                     Then(Exp_eval_to_val(e.args[2], C, obj1.H, d + 1), LAMBDA obj2 :
                     IF obj1.v.t = "Object" /\ obj2.v.t = "Object"
                     THEN Then(binary_op(eval_Dot(obj2.H, obj1.v, "x"), "-",
                                         eval_Dot(obj2.H, obj2.v, "x"),
                                         C.overflow_checks, obj2.H), LAMBDA dx :
                          Then(binary_op(eval_Dot(obj2.H, obj1.v, "y"), "-",
                                         eval_Dot(obj2.H, obj2.v, "y"),
                                         C.overflow_checks, obj2.H), LAMBDA dy :
                          Ok(VInt(Isqrt((dx.v * dx.v) + (dy.v * dy.v))), obj2.H)))
                     ELSE Ok(VInt(0), obj2.H)))
                ELSE Ok(VInt(0), H)
           [] e.name \in {"draw_rect", "draw_line", "draw_circle"} ->
                IF Len(e.args) >= (IF e.name = "draw_circle" THEN 3 ELSE 4)
                THEN Then(eval_ints(SubSeq(e.args, 1,
                                           Min(Len(e.args),
                                               CASE e.name = "draw_rect" -> 7
                                                 [] e.name = "draw_line" -> 8
                                                 [] OTHER -> 6)),
                                    C, H, d + 1), LAMBDA a :
                     Ok(VInt(0), a.H))
                ELSE Ok(VInt(0), H)
           [] OTHER -> Then(Exp_eval(e, C, H, d + 1), LAMBDA r : Ok(VInt(r.v), r.H))

BEqual(left, right) == [k |-> "Equal", left |-> left, right |-> right]
BNotEqual(left, right) == [k |-> "NotEqual", left |-> left, right |-> right]
BGreater(left, right) == [k |-> "Greater", left |-> left, right |-> right]
BLess(left, right) == [k |-> "Less", left |-> left, right |-> right]

\* BExp::eval; v is the truth value.  `&&` and `||` short-circuit.
RECURSIVE BExp_eval(_, _, _, _)
BExp_eval(b, C, H, d) ==
    IF d > StackLimit THEN Ended("stack", H)
    ELSE CASE b.k = "And" ->
                Then(BExp_eval(b.left, C, H, d + 1), LAMBDA l :
                IF l.v THEN BExp_eval(b.right, C, l.H, d + 1) ELSE Ok(FALSE, l.H))
           [] b.k = "Or" ->
                Then(BExp_eval(b.left, C, H, d + 1), LAMBDA l :
                IF l.v THEN Ok(TRUE, l.H) ELSE BExp_eval(b.right, C, l.H, d + 1))
           [] b.k \in {"Equal", "NotEqual"} ->
                Then(Exp_eval_to_val(b.left, C, H, d + 1), LAMBDA l :
                Then(Exp_eval_to_val(b.right, C, l.H, d + 1), LAMBDA r :
                Ok(values_are_equal(l.v, r.v) = (b.k = "Equal"), r.H)))
           [] OTHER ->
                Then(Exp_eval(b.left, C, H, d + 1), LAMBDA l :
                Then(Exp_eval(b.right, C, l.H, d + 1), LAMBDA r :
                Ok(CASE b.k = "Greater" -> l.v > r.v
                     [] b.k = "Less" -> l.v < r.v
                     [] b.k = "GreaterEqual" -> l.v >= r.v
                     [] OTHER -> l.v <= r.v, r.H)))

CAssign(target, value) == [k |-> "Assign", target |-> target, value |-> value]
CExp(exp) == [k |-> "Exp", exp |-> exp]
CReturn(exp) == [k |-> "Return", exp |-> exp]
CIf(condition, then_block, else_block) ==
    [k |-> "If", condition |-> condition, then_block |-> then_block,
     else_block |-> else_block]

NoReturn == [some |-> FALSE, val |-> VInt(0)]

\* what Command::execute answers: how the thread stands, the Option<Value>
\* returned, the heap
Done(ret, H) == [st |-> "ok", ret |-> ret, H |-> H]

\* Command::execute for Exp, Assign, If and Return (For and Spawn are
\* execute_Spawn and the for_ loops above); an `if` without else has the
\* empty else_block.
RECURSIVE Command_execute(_, _, _, _), execute_block(_, _, _, _)
Command_execute(cmd, C, H, d) ==
    IF d > StackLimit THEN [st |-> "stack", ret |-> NoReturn, H |-> H]
    ELSE CASE cmd.k = "Exp" ->
                With(Exp_eval_to_val(cmd.exp, C, H, d + 1), LAMBDA r :
                [st |-> r.st, ret |-> NoReturn, H |-> r.H])
           [] cmd.k = "Return" ->
                With(Exp_eval_to_val(cmd.exp, C, H, d + 1), LAMBDA r :
                [st |-> r.st, ret |-> [some |-> r.st = "ok", val |-> r.v], H |-> r.H])
           [] cmd.k = "Assign" ->
                With(Exp_eval_to_val(cmd.value, C, H, d + 1), LAMBDA new_value :
                IF new_value.st # "ok"
                THEN [st |-> new_value.st, ret |-> NoReturn, H |-> new_value.H]
                ELSE CASE cmd.target.k = "Var" ->
                            Done(NoReturn, assign_Var(new_value.H, C.env, cmd.target.name,
                                                      new_value.v))
                       [] cmd.target.k = "Dot" ->
                            With(Exp_eval_to_val(cmd.target.obj, C, new_value.H, d + 1),
                                 LAMBDA o :
                            [st |-> o.st, ret |-> NoReturn,
                             H |-> IF o.st = "ok"
                                   THEN assign_Dot(o.H, o.v, cmd.target.field, new_value.v)
                                   ELSE o.H])
                       [] cmd.target.k = "Index" ->
                            With(Exp_eval_to_val(cmd.target.list, C, new_value.H, d + 1),
                                 LAMBDA l :
                            IF l.st # "ok" \/ l.v.t # "List"
                            THEN [st |-> l.st, ret |-> NoReturn, H |-> l.H]
                            ELSE With(Exp_eval(cmd.target.idx, C, l.H, d + 1), LAMBDA i :
                                 [st |-> i.st, ret |-> NoReturn,
                                  H |-> IF i.st = "ok" /\ InRange(i.v, i.H.lists[l.v.v])
                                        THEN [i.H EXCEPT !.lists[l.v.v][i.v + 1] = new_value.v]
                                        ELSE i.H]))
                       [] OTHER -> Done(NoReturn, new_value.H))
           [] cmd.k = "If" ->
                With(BExp_eval(cmd.condition, C, H, d + 1), LAMBDA c :
                IF c.st # "ok" THEN [st |-> c.st, ret |-> NoReturn, H |-> c.H]
                ELSE execute_block(IF c.v THEN cmd.then_block ELSE cmd.else_block,
                                   C, c.H, d + 1))
           [] OTHER -> Done(NoReturn, H)

\* `for cmd in block { result = cmd.execute(..); if result.is_some() { return result } }`
execute_block(cmds, C, H, d) ==
    IF cmds = <<>> THEN Done(NoReturn, H)
    ELSE With(Command_execute(Head(cmds), C, H, d), LAMBDA r :
         IF r.st # "ok" \/ r.ret.some THEN r
         ELSE execute_block(Tail(cmds), C, r.H, d))

---------------------------------------------------------------------------
(* One agent's routine body run by the routine loop of World::step         *)
(* (world.rs 49-55): `self` is set, then the commands are executed in      *)
(* order, their return values ignored.  The bodies explored, by name:      *)

Self == EVar("self")
Genes == EDot(Self, "genes")
Minus(n) == EBinaryOp(EInt(0), "-", EInt(n))
OnIntPath(e) == EBinaryOp(e, "+", EInt(0))

\* the expression each body assigns to v
BodyExp(name) ==
    CASE name = "unknown" -> ECall("foo", <<EInt(1)>>)
      [] name = "unknown_noargs" -> ECall("foo", <<>>)
      [] name = "random_1" -> ECall("random", <<EInt(5)>>)
      [] name = "random_3" -> ECall("random", <<EInt(1), EInt(2), EInt(3)>>)
      [] name = "len_0" -> ECall("len", <<>>)
      [] name = "push_1" -> ECall("push", <<Genes>>)
      [] name = "pop_0" -> ECall("pop", <<>>)
      [] name = "get_at_1" -> ECall("get_at", <<EInt(1)>>)
      [] name = "dist_1" -> ECall("dist", <<Self>>)
      [] name = "draw_rect_3" -> ECall("draw_rect", <<EInt(1), EInt(2), EInt(3)>>)
      [] name = "index_high" -> EIndex(Genes, EInt(5))
      [] name = "index_len" -> EIndex(Genes, ECall("len", <<Genes>>))
      [] name = "index_neg" -> EIndex(Genes, Minus(1))
      [] name = "dot_int" -> EDot(EDot(Self, "x"), "y")
      [] name = "dot_string" -> EDot(EDot(Self, "species"), "x")
      [] name = "dot_list" -> EDot(Genes, "x")
      [] name = "dot_undefined" -> EDot(EVar("nothing"), "x")
      [] name = "random_2" -> ECall("random", <<EInt(0), EInt(2)>>)
      [] name = "index_0" -> EIndex(Genes, EInt(0))
      [] name = "dot_x" -> EDot(Self, "x")
      [] name = "div" -> EBinaryOp(EVar("a"), "/", EVar("b"))
      [] name = "rem" -> EBinaryOp(EVar("a"), "%", EVar("b"))
      [] OTHER -> EInt(0)

\* the runtime soft failures among them
SoftFailures ==
    {"unknown", "unknown_noargs", "random_1", "random_3", "len_0", "push_1", "pop_0",
     "get_at_1", "dist_1", "draw_rect_3", "index_high", "index_len", "index_neg",
     "dot_int", "dot_string", "dot_list", "dot_undefined"}

\* expressions that succeed, for comparison
Controls == {"random_2", "index_0", "dot_x"}

Arithmetic == {"div", "rem"}

\* `v = <e>; after = 1`, with e on the value path, or on the integer path
\* as the operand of a `+`
Body(name, int_path) ==
    <<CAssign(EVar("v"), IF int_path THEN OnIntPath(BodyExp(name)) ELSE BodyExp(name)),
      CAssign(EVar("after"), EInt(1))>>

EvalOperands == {I32Min, 0 - 7, 0 - 1, 0, 1, 2, 7, I32Max}

\* the heap of one Ant at (x, 0) whose list `genes` holds `items`, with the
\* variables a and b set
AgentHeap(x, items, a, b) ==
    [envs |-> (<<1, 1>> :>
                  [species |-> VString("Ant"), mate |-> VInt(0), genes |-> VList(<<1, 1>>),
                   x |-> VInt(x), y |-> VInt(0), a |-> VInt(a), b |-> VInt(b)]),
     lists |-> (<<1, 1>> :> items)]

Context == [env |-> <<1, 1>>, individuals |-> <<[species |-> "Ant", env |-> <<1, 1>>]>>,
            rnd |-> ev.rnd, overflow_checks |-> ev.overflow_checks]

\* the engine stands still while a specification explores one part of it
EngineOff(at) ==
    /\ program = Prog(1, 0, 0, "idle", "x", "none", "none", 1, FALSE)
    /\ envs = <<>>
    /\ lists = <<>>
    /\ instances = <<>>
    /\ history = <<>>
    /\ current_gen_idx = 0
    /\ current_step_idx = 1
    /\ current_gen = 0
    /\ running = FALSE
    /\ global_best_fitness = 0
    /\ pc = at
    /\ wpc = <<>>
    /\ held = {}
    /\ removed = <<>>
    /\ nworlds = 0

\* the agent's turn in the routine loop begins: world.rs 49-50
InitEval ==
    /\ \E name \in SoftFailures \cup Controls \cup Arithmetic, int_path \in BOOLEAN,
          overflow_checks \in BOOLEAN, rnd \in 0..1, x \in {0, 3},
          items \in {<<>>, <<VInt(7)>>}, a \in EvalOperands, b \in EvalOperands :
          /\ name \in Arithmetic => (~int_path /\ rnd = 0 /\ x = 0 /\ items = <<>>)
          /\ name \notin Arithmetic => (a = 0 /\ b = 0)
          /\ name # "random_2" => rnd = 0
          /\ ev = [body |-> name, int_path |-> int_path, cmds |-> Body(name, int_path),
                   pos |-> 0, st |-> "run", rnd |-> rnd,
                   overflow_checks |-> overflow_checks,
                   H |-> assign_Var(AgentHeap(x, items, a, b), <<1, 1>>, "self",
                                    VObject(<<1, 1>>))]
    /\ EngineOff("body")
    /\ grid = NoGrid
    /\ tls = NoThreads
    /\ front = NoFront

\* world.rs 52-55: the next command of the body is executed
ExecuteCommand ==
    /\ pc = "body"
    /\ ev.st = "run"
    /\ ev.pos < Len(ev.cmds)
    /\ With(Command_execute(ev.cmds[ev.pos + 1], Context, ev.H, 1), LAMBDA r :
            ev' = [ev EXCEPT !.pos = @ + 1, !.H = r.H,
                             !.st = IF r.st = "ok" THEN "run" ELSE r.st])
    /\ UNCHANGED <<engine, grid, tls, front>>

NextEval == ExecuteCommand

SpecEval == InitEval /\ [][NextEval]_vars

\* the value of the agent's variable, Int(0) where it is not set
Stored(name) == Get(ev.H, <<1, 1>>, name).val

\* C11: a runtime soft failure (a call of an unknown built-in, a built-in
\* with too few arguments such as random with other than 2, a list index
\* out of range or negative, a field of a non-Object) terminates, evaluates
\* to Int(0) (0 on the integer path), and the following command still runs.
C11_SoftFailuresAbsorbed ==
    ev.body \in SoftFailures =>
        /\ ev.st = "run"
        /\ ev.pos >= 1 => (Get(ev.H, <<1, 1>>, "v").some /\ Stored("v") = VInt(0))
        /\ ev.pos = 2 => Stored("after") = VInt(1)

\* sign of an integer: -1, 0 or 1
Sign(n) == IF n < 0 THEN 0 - 1 ELSE IF n > 0 THEN 1 ELSE 0

\* magnitude of an integer above -2^31
Abs(n) == IF n < 0 THEN 0 - n ELSE n

\* b # 0 divides n
Divides(b, n) ==
    IF b = I32Min THEN n \in {0, I32Min}
    ELSE IF n = I32Min THEN I32Max % Abs(b) = Abs(b) - 1
    ELSE Abs(n) % Abs(b) = 0

\* C12: for all 32-bit operands a and b, `a / b` and `a % b` evaluate
\* without fault: 0 when b = 0, otherwise the quotient rounded toward zero
\* and the remainder that goes with it (a = q * b + r, r of the sign of a
\* and smaller than b in magnitude), also for a = -2^31 and b = -1.
C12_DivModTotal ==
    ev.body \in Arithmetic =>
        /\ ev.st = "run"
        /\ ev.pos >= 1 =>
              LET a == Stored("a").v
                  b == Stored("b").v
                  v == Stored("v").v
              IN /\ Stored("v").t = "Int"
                 /\ b = 0 => v = 0
                 /\ (b # 0 /\ ev.body = "div") =>
                       LET r == a - (v * b)
                       IN /\ Sign(r) \in {0, Sign(a)}
                          /\ IF b = I32Min THEN r # I32Min
                             ELSE r # I32Min /\ Abs(r) < Abs(b)
                 /\ (b # 0 /\ ev.body = "rem") =>
                       /\ Sign(v) \in {0, Sign(a)}
                       /\ b # I32Min => (v # I32Min /\ Abs(v) < Abs(b))
                       /\ Divides(b, a - v)

---------------------------------------------------------------------------
(* Spawn commands with chosen coordinates.  The SPAWN block of these       *)
(* programs is program.spawns_block, each command `spawn <species> at      *)
(* (<x>, <y>)` with literal coordinates; the species Moth is not declared. *)
(* The routine of the program is `hatch`, so that further agents are       *)
(* spawned at the end of each step.                                        *)

MaxSpawns == 2          \* most commands in the SPAWN block of these programs

CSpawn(species, x, y) == [k |-> "Spawn", species |-> species, x |-> x, y |-> y]

\* a coordinate as the parser reads it: `5`, and `0 - 1` for -1
Coordinate(n) == IF n < 0 THEN Minus(0 - n) ELSE EInt(n)

\* the commands written in the SPAWN block, on a 3 x 3 grid
SpawnCommands == (species_block \cup {"Moth"}) \X {0 - 1, 0, 2, 5} \X {0 - 1, 2}

\* Command::execute for Spawn: nothing for a species the program does not
\* declare, else the coordinates are evaluated on the integer path
Command_execute_Spawn(cmd, C, H, spawner, arena) ==
    IF cmd.species \notin species_block THEN [H |-> H, spawner |-> spawner]
    ELSE With(Exp_eval(cmd.x, C, H, 1), LAMBDA x_pos :
         With(Exp_eval(cmd.y, C, x_pos.H, 1), LAMBDA y_pos :
         execute_Spawn(cmd.species, x_pos.v, y_pos.v, y_pos.H, spawner, arena)))

\* World::spawn over the commands of program.spawns_block; the scratch
\* environment the commands run against is never read by literal coordinates
RECURSIVE spawns_block_loop(_, _, _, _)
spawns_block_loop(cmds, H, spawner, arena) ==
    IF Now(H) /\ cmds = <<>> THEN [H |-> H, spawner |-> spawner]
    ELSE With(Command_execute_Spawn(Head(cmds),
                                    [env |-> <<arena, 0>>, individuals |-> <<>>,
                                     rnd |-> 0, overflow_checks |-> FALSE],
                                    H, spawner, arena), LAMBDA s :
         spawns_block_loop(Tail(cmds), s.H, s.spawner, arena))

World_spawn(w, H) ==
    With(spawns_block_loop(program.spawns_block, H, <<>>, w.arena), LAMBDA r :
    [w |-> [w EXCEPT !.individuals = @ \o r.spawner], H |-> r.H])

\* main.rs: one world is created; its SPAWN block has not run yet
InitSpawn ==
    /\ \E steps \in 0..MaxSteps, n \in 1..MaxSpawns :
       \E cmds \in [1..n -> SpawnCommands] :
          program = [spawns_block |->
                        [j \in 1..n |-> CSpawn(cmds[j][1], Coordinate(cmds[j][2]),
                                               Coordinate(cmds[j][3]))]]
                    @@ Prog(1, steps, 1, "hatch", "x", "none", "none", n, FALSE)
    /\ instances = <<World_new(0, 1)>>
    /\ envs = <<>>
    /\ lists = <<>>
    /\ history = <<>>
    /\ current_gen_idx = 0
    /\ current_step_idx = 1
    /\ current_gen = 0
    /\ running = FALSE
    /\ global_best_fitness = 0
    /\ pc = "seed"
    /\ wpc = <<0>>
    /\ held = {}
    /\ removed = <<>>
    /\ nworlds = 1
    /\ grid = NoGrid
    /\ ev = NoEval
    /\ tls = NoThreads
    /\ front = NoFront

\* main.rs 64-69: w.spawn(); the generation then runs its steps
WorldSpawn ==
    /\ pc = "seed"
    /\ With(World_spawn(instances[1], Heap), LAMBDA r :
            /\ instances' = <<r.w>>
            /\ SetHeap(r.H))
    /\ pc' = "par"
    /\ UNCHANGED <<program, history, current_gen_idx, current_step_idx, current_gen,
                   running, global_best_fitness, wpc, held, removed, nworlds,
                   grid, ev, tls, front>>

NextSpawn == WorldSpawn \/ WorldStep(1)

SpecSpawn == InitSpawn /\ [][NextSpawn]_vars

\* the Spawn commands of the SPAWN block that name a declared species
RECURSIVE Declared(_)
Declared(cmds) ==
    IF cmds = <<>> THEN <<>>
    ELSE IF Head(cmds).species \in species_block
         THEN <<Head(cmds)>> \o Declared(Tail(cmds))
         ELSE Declared(Tail(cmds))

\* the literal a coordinate of the SPAWN block denotes
Literal(e) == IF e.k = "Int" THEN e.n ELSE 0 - e.right.n

\* C13: every Individual a Spawn command produced stores Int x and y equal
\* to the evaluated coordinates of the command and a String species equal to
\* its tag, whatever the defaults its species declares (the Wasp's are named
\* x and y).  The k-th agent of the world comes from the k-th Spawn of the
\* SPAWN block that names a declared species; each later agent was spawned
\* by the routine of an earlier one, at (self.x + 1, self.y).
C13_SpawnStoresPositionAndSpecies ==
    pc = "par" =>
        LET inds == instances[1].individuals
            cmds == Declared(program.spawns_block)
        IN /\ Len(inds) >= Len(cmds)
           /\ \A k \in 1..Len(inds) :
                LET store == envs[inds[k].env]
                IN /\ {"x", "y", "species"} \subseteq DOMAIN store
                   /\ store["species"] = VString(inds[k].species)
                   /\ store["x"].t = "Int" /\ store["y"].t = "Int"
                   /\ k <= Len(cmds) =>
                        /\ inds[k].species = cmds[k].species
                        /\ store["x"] = VInt(Literal(cmds[k].x))
                        /\ store["y"] = VInt(Literal(cmds[k].y))
                   /\ k > Len(cmds) =>
                        /\ inds[k].species = "Wasp"
                        /\ \E j \in 1..(k - 1) :
                             /\ routine_call(inds[j].species) = "act"
                             /\ store["x"] = VInt(envs[inds[j].env]["x"].v + 1)
                             /\ store["y"] = envs[inds[j].env]["y"]

\* a Wasp of the SPAWN block stands at nonzero coordinates and a Wasp was
\* spawned at the end of a step
C13_Witness ==
    /\ pc = "par"
    /\ wpc[1] >= 1
    /\ \E k \in 1..Len(instances[1].individuals) :
         /\ k <= Len(Declared(program.spawns_block))
         /\ instances[1].individuals[k].species = "Wasp"
         /\ envs[instances[1].individuals[k].env]["x"] = VInt(5)
         /\ envs[instances[1].individuals[k].env]["y"] = VInt(0 - 1)
    /\ Len(instances[1].individuals) > Len(Declared(program.spawns_block))

---------------------------------------------------------------------------
(* The `self` key of the agents of the engine (Spec).                      *)

HasSelf(ind) == "self" \in DOMAIN envs[ind.env]

\* the agent's `self`, where it has one, is its own environment
SelfIsOwn(ind) == HasSelf(ind) => envs[ind.env]["self"] = VObject(ind.env)

Cleared(ind) == envs[ind.env] = EmptyStore

\* the agents of the worlds, of the frames the worlds recorded, and of the
\* snapshot log
LiveAgents == UNION {{instances[i].individuals[k] :
                         k \in 1..Len(instances[i].individuals)} :
                     i \in 1..Len(instances)}

FrameAgents == UNION {UNION {{instances[i].history[f][k] :
                                 k \in 1..Len(instances[i].history[f])} :
                             f \in 1..Len(instances[i].history)} :
                      i \in 1..Len(instances)}

LogAgents == UNION {{history[g].individuals[k] :
                        k \in 1..Len(history[g].individuals)}
                    \cup UNION {{history[g].step_history[f][k] :
                                    k \in 1..Len(history[g].step_history[f])} :
                                f \in 1..Len(history[g].step_history)} :
                    g \in 1..Len(history)}

\* C14: the body of a routine, of the fitness block or of a mutation starts
\* with `self` holding the very environment it runs against, and every copy
\* of an agent (a child of create_next_generation, an agent of
\* snapshot_individuals, a deep_clone of a frame) has `self` pointing at its
\* own new environment, never at the one it was copied from.
\*  - no agent of a world, a frame or the log has a `self` other than its own
\*    environment;
\*  - the schema copies always have one: the agents of the log, and the
\*    children once create_next_generation and mutate have returned;
\*  - the bodies saw it: once calculate_total_fitness has returned, the
\*    fitness block `return self.x` has stored every agent's own x as its
\*    fitness, and after a tick every agent of the SPAWN block that has a
\*    routine holds it.
C14_SelfIsTheExecutingEnvironment ==
    /\ \A ind \in LiveAgents \cup FrameAgents : SelfIsOwn(ind)
    /\ \A ind \in LogAgents : Cleared(ind) \/ (HasSelf(ind) /\ SelfIsOwn(ind))
    /\ (pc = "idle" /\ nworlds > program.instances) =>
           \A ind \in LiveAgents : HasSelf(ind)
    /\ pc = "par" =>
         \A i \in 1..Len(instances) :
           LET inds == instances[i].individuals
           IN /\ wpc[i] = program.env_steps + 1 =>
                    \A k \in 1..Len(inds) :
                       /\ HasSelf(inds[k])
                       /\ program.fitness = "x" =>
                            envs[inds[k].env]["fitness"] = envs[inds[k].env]["x"]
              /\ wpc[i] >= 1 =>
                    \A k \in 1..Len(inds) :
                       (k <= program.spawn_count /\ routine_call(inds[k].species) = "act")
                           => HasSelf(inds[k])

\* children were built from agents that had run their routine and been
\* mutated, a frame holds a clone of an agent with `self`, and the log holds
\* a snapshot
C14_Witness ==
    /\ pc = "par"
    /\ nworlds > program.instances
    /\ program.mutation = "move"
    /\ \E ind \in FrameAgents : HasSelf(ind) /\ ~Cleared(ind)
    /\ \E ind \in LogAgents : HasSelf(ind)
    /\ \E i \in 1..Len(instances) :
         /\ wpc[i] = program.env_steps + 1
         /\ instances[i].individuals # <<>>

---------------------------------------------------------------------------
(* The thread-local cells of eval.rs: GRID_CACHE, DRAW_COMMANDS and        *)
(* WORLD_DIMENSIONS, one set per thread.  Thread 0 is the GUI thread, which *)
(* renders; threads 1..MaxWorkers are the workers of the pool, which run    *)
(* World::step and calculate_total_fitness of the worlds handed to them.    *)
(* The programs explored:                                                   *)
(*   routine   "idle": no command;  "draw": `draw_rect(self.x, self.y, 1, 1)` *)
(*   fitness   "x": `return self.x`;                                        *)
(*             "draw": `draw_rect(self.x, self.y, 1, 1)  return self.x`     *)
(*   visualize "empty": no VISUALIZE block;                                 *)
(*             "draw": `for a in environment { draw_rect(a.x, a.y, 1, 1) }` *)
(* with program.agents agents in every world and every snapshot.  A pass    *)
(* is shown in two steps: what it does before the first command of a body,  *)
(* then the bodies and what follows them.                                   *)

MaxWorkers == 2         \* worker threads of the pool
MaxPasses == 2          \* passes a thread runs

Threads == 0..MaxWorkers

\* thread_local!: the cells of a thread that has run nothing yet
ThreadLocals == [pass |-> "none", of |-> 0, GRID_CACHE |-> "None",
                 DRAW_COMMANDS |-> <<>>, WORLD_DIMENSIONS |-> <<100, 100>>]

\* the DrawCmd values `n` evaluations of draw_rect push during pass `of`
pushed(n, of) == [k \in 1..n |-> [cmd |-> "Rect", pass |-> of]]

\* World::step 33-39 and calculate_total_fitness 93-95: the dimensions are
\* set; build_grid_cache returns early for fewer than two agents
pass_begin(cells, name) ==
    [cells EXCEPT !.pass = name, !.of = @ + 1,
                  !.WORLD_DIMENSIONS = <<program.env_width, program.env_height>>,
                  !.GRID_CACHE = IF program.agents <= 1 THEN @ ELSE "Some"]

\* the bodies run for every agent, then clear_grid_cache
pass_end(cells, body) ==
    [cells EXCEPT !.pass = "none", !.GRID_CACHE = "None",
                  !.DRAW_COMMANDS = IF body = "draw"
                                    THEN @ \o pushed(program.agents, cells.of) ELSE @]

InitPass ==
    /\ \E routine \in {"idle", "draw"}, fitness \in {"x", "draw"},
          visualize \in {"empty", "draw"}, agents \in 1..MaxAgents :
          program = [visualize |-> visualize, agents |-> agents]
                    @@ Prog(1, 1, 1, routine, fitness, "none", "none", agents, FALSE)
    /\ tls = [t \in Threads |-> ThreadLocals]
    /\ envs = <<>>
    /\ lists = <<>>
    /\ instances = <<>>
    /\ history = <<>>
    /\ current_gen_idx = 0
    /\ current_step_idx = 1
    /\ current_gen = 0
    /\ running = FALSE
    /\ global_best_fitness = 0
    /\ pc = "pass"
    /\ wpc = <<>>
    /\ held = {}
    /\ removed = <<>>
    /\ nworlds = 0
    /\ grid = NoGrid
    /\ ev = NoEval
    /\ front = NoFront

\* World::step on worker t, up to the routine loop
BeginStep(t) ==
    /\ pc = "pass" /\ t # 0
    /\ tls[t].pass = "none" /\ tls[t].of < MaxPasses
    /\ tls' = [tls EXCEPT ![t] = pass_begin(@, "step")]
    /\ UNCHANGED <<engine, grid, ev, front>>

\* World::step 42-61: the routines, the spawned agents, clear_grid_cache
EndStep(t) ==
    /\ pc = "pass" /\ tls[t].pass = "step"
    /\ tls' = [tls EXCEPT ![t] = pass_end(@, program.routine)]
    /\ UNCHANGED <<engine, grid, ev, front>>

\* calculate_total_fitness on worker t, up to the loop over the agents
BeginFitness(t) ==
    /\ pc = "pass" /\ t # 0
    /\ tls[t].pass = "none" /\ tls[t].of < MaxPasses
    /\ tls' = [tls EXCEPT ![t] = pass_begin(@, "fitness")]
    /\ UNCHANGED <<engine, grid, ev, front>>

\* calculate_total_fitness 99-109
EndFitness(t) ==
    /\ pc = "pass" /\ tls[t].pass = "fitness"
    /\ tls' = [tls EXCEPT ![t] = pass_end(@, program.fitness)]
    /\ UNCHANGED <<engine, grid, ev, front>>

\* render_visualization on the GUI thread: DRAW_COMMANDS is cleared; with a
\* VISUALIZE block, execute_visualize_block sets the dimensions and the grid
\* cache (always Some) before its first command
BeginVisualize ==
    /\ pc = "pass"
    /\ tls[0].pass = "none" /\ tls[0].of < MaxPasses
    /\ tls' = [tls EXCEPT ![0] =
                  IF program.visualize = "empty"
                  THEN [@ EXCEPT !.of = @ + 1, !.DRAW_COMMANDS = <<>>]
                  ELSE [@ EXCEPT !.pass = "visualize", !.of = @ + 1,
                                 !.DRAW_COMMANDS = <<>>,
                                 !.WORLD_DIMENSIONS = <<program.env_width,
                                                        program.env_height>>,
                                 !.GRID_CACHE = "Some"]]
    /\ UNCHANGED <<engine, grid, ev, front>>

\* execute_visualize_block 370-377: the commands of the block, then the
\* cache is dropped; the canvas is painted from DRAW_COMMANDS
EndVisualize ==
    /\ pc = "pass" /\ tls[0].pass = "visualize"
    /\ tls' = [tls EXCEPT ![0] = pass_end(@, program.visualize)]
    /\ UNCHANGED <<engine, grid, ev, front>>

NextPass ==
    \/ \E t \in Threads : BeginStep(t)
    \/ \E t \in Threads : EndStep(t)
    \/ \E t \in Threads : BeginFitness(t)
    \/ \E t \in Threads : EndFitness(t)
    \/ BeginVisualize
    \/ EndVisualize

SpecPass == InitPass /\ [][NextPass]_vars

\* C15: on every thread the grid cache, the draw-command buffer and the
\* dimensions hold what a pass set only during that pass: once World::step,
\* calculate_total_fitness or execute_visualize_block has returned the grid
\* cache is None, and the bodies of a pass find in the thread's buffer no
\* draw command that an earlier pass emitted.
C15_ThreadLocalsArePassScoped ==
    \A t \in Threads :
        /\ tls[t].pass = "none" => tls[t].GRID_CACHE = "None"
        /\ tls[t].pass # "none" =>
               \A k \in 1..Len(tls[t].DRAW_COMMANDS) :
                   tls[t].DRAW_COMMANDS[k].pass = tls[t].of

---------------------------------------------------------------------------
(* The front end: main (main.rs), Parser::parse_program (parser.rs) and    *)
(* validate_program (semantic.rs).  A source text is the sequence of its   *)
(* top-level items, each <<kind, form>>: kind is the keyword that opens it *)
(* or "stray" for a token that opens no block, form is "ok" for a block    *)
(* its sub-parser accepts and "bad" for one it rejects (`FITNESS { return }`*)
(* fails in parse_primary, `ENVIRONMENT { 5 }` in parse_env_block).  The   *)
(* bodies of the routine, of the SPAWN and FITNESS blocks and of the       *)
(* mutation rule are chosen by name.                                        *)

Mandatory == <<"ENVIRONMENT", "SPECIES", "EVOLVE", "FITNESS", "MUTATE", "SPAWN">>

Range(seq) == {seq[j] : j \in 1..Len(seq)}

CFor(var, collection, body) ==
    [k |-> "For", var |-> var, collection |-> collection, body |-> body]

\* what the top-level loop of parse_program does with the items: a stray
\* token is skipped, a block is handed to its sub-parser, whose error ends
\* the parse (`?`), and an accepted block sets its found_ flag
RECURSIVE parse_items(_, _)
parse_items(items, found) ==
    IF items = <<>> THEN [ok |-> TRUE, found |-> found, msg |-> "", block |-> ""]
    ELSE IF Head(items)[1] = "stray" THEN parse_items(Tail(items), found)
    ELSE IF Head(items)[2] = "bad"
         THEN [ok |-> FALSE, found |-> found, msg |-> "Expected", block |-> Head(items)[1]]
         ELSE parse_items(Tail(items), found \cup {Head(items)[1]})

\* the found_ checks after the loop, in the order of the code
RECURSIVE first_missing(_, _)
first_missing(blocks, found) ==
    IF blocks = <<>> THEN ""
    ELSE IF Head(blocks) \notin found THEN Head(blocks)
    ELSE first_missing(Tail(blocks), found)

\* a parse_program that does not look at found_mutate
parse_program_without_mutate_check(items) ==
    With(parse_items(items, {}), LAMBDA r :
    IF ~r.ok THEN [ok |-> FALSE, msg |-> r.msg, block |-> r.block]
    ELSE With(first_missing(SelectSeq(Mandatory, LAMBDA b : b # "MUTATE"), r.found),
              LAMBDA missing :
         IF missing # ""
         THEN [ok |-> FALSE, msg |-> "Missing obligatory", block |-> missing]
         ELSE [ok |-> TRUE, msg |-> "", block |-> ""]))

\* Parser::parse_program
parse_program(items) ==
    With(parse_items(items, {}), LAMBDA r :
    IF ~r.ok THEN [ok |-> FALSE, msg |-> r.msg, block |-> r.block]
    ELSE With(first_missing(Mandatory, r.found), LAMBDA missing :
         IF missing # ""
         THEN [ok |-> FALSE, msg |-> "Missing obligatory", block |-> missing]
         ELSE [ok |-> TRUE, msg |-> "", block |-> ""]))

\* validate_program 20-38: the globals and the known properties of the
\* species block (x, y, species, fitness and the defaults of Ant), by type
globals == [width |-> "Int", height |-> "Int", steps |-> "Int",
            environment |-> "Environment"]

known_props == [x |-> "Int", y |-> "Int", species |-> "String", fitness |-> "Int",
                mate |-> "Int", genes |-> "List"]

Checked(type, errors) == [type |-> type, errors |-> errors]

RECURSIVE check_exp(_, _, _), check_exps(_, _, _), check_commands(_, _, _)

\* check_exp: the type of the expression and the errors pushed
check_exp(exp, env, props) ==
    CASE exp.k = "Int" -> Checked("Int", <<>>)
      [] exp.k = "StringLiteral" -> Checked("String", <<>>)
      [] exp.k = "Bool" -> Checked("Bool", <<>>)
      [] exp.k = "Var" ->
           IF exp.name \in DOMAIN env THEN Checked(env[exp.name], <<>>)
           ELSE IF exp.name \in DOMAIN props THEN Checked(props[exp.name], <<>>)
           ELSE Checked("Unknown", <<<<"Undefined variable", exp.name>>>>)
      [] exp.k = "BinaryOp" ->
           With(check_exp(exp.left, env, props), LAMBDA lt :
           With(check_exp(exp.right, env, props), LAMBDA rt :
           IF exp.op = "+" /\ (lt.type = "String" \/ rt.type = "String")
           THEN Checked("String", lt.errors \o rt.errors)
           ELSE IF exp.op # "+" /\ (lt.type = "String" \/ rt.type = "String")
           THEN Checked("Unknown", lt.errors \o rt.errors
                                   \o <<<<"Cannot use operator on a String", exp.op>>>>)
           ELSE Checked("Int", lt.errors \o rt.errors)))
      [] exp.k = "Dot" ->
           Checked(IF exp.field \in DOMAIN props THEN props[exp.field] ELSE "Unknown",
                   check_exp(exp.obj, env, props).errors)
      [] exp.k = "Index" ->
           Checked("Unknown", check_exp(exp.list, env, props).errors
                              \o check_exp(exp.idx, env, props).errors)
      [] exp.k = "List" -> Checked("List", check_exps(exp.items, env, props))
      [] exp.k = "Call" ->
           Checked(CASE exp.name \in {"random", "len", "dist"} -> "Int"
                     [] exp.name = "get_at" -> "Object"
                     [] OTHER -> "Unknown",
                   check_exps(exp.args, env, props))

\* `for a in args { check_exp(a, ..) }`
check_exps(exps, env, props) ==
    IF exps = <<>> THEN <<>>
    ELSE check_exp(Head(exps), env, props).errors \o check_exps(Tail(exps), env, props)

\* check_bexp, for the comparisons
check_bexp(bexp, env, props) ==
    check_exp(bexp.left, env, props).errors \o check_exp(bexp.right, env, props).errors

\* check_commands: the errors pushed; an assignment to a variable puts it in
\* scope for the commands after it, an assignment to anything but a Var or a
\* Dot checks the value only
check_commands(cmds, env, props) ==
    IF cmds = <<>> THEN <<>>
    ELSE LET cmd == Head(cmds)
         IN CASE cmd.k = "Assign" ->
                   With(check_exp(cmd.value, env, props), LAMBDA val :
                   val.errors
                   \o (IF cmd.target.k = "Dot"
                       THEN check_exp(cmd.target.obj, env, props).errors ELSE <<>>)
                   \o check_commands(Tail(cmds),
                                     IF cmd.target.k = "Var"
                                     THEN (cmd.target.name :> val.type) @@ env ELSE env,
                                     props))
              [] cmd.k = "If" ->
                   check_bexp(cmd.condition, env, props)
                   \o check_commands(cmd.then_block, env, props)
                   \o check_commands(cmd.else_block, env, props)
                   \o check_commands(Tail(cmds), env, props)
              [] cmd.k = "Spawn" ->
                   check_exp(cmd.x, env, props).errors
                   \o check_exp(cmd.y, env, props).errors
                   \o check_commands(Tail(cmds), env, props)
              [] cmd.k \in {"Return", "Exp"} ->
                   check_exp(cmd.exp, env, props).errors
                   \o check_commands(Tail(cmds), env, props)
              [] cmd.k = "For" ->
                   check_commands(cmd.body,
                                  IF cmd.collection = "environment"
                                  THEN (cmd.var :> "Object") @@ env ELSE env, props)
                   \o check_commands(Tail(cmds), env, props)

\* the bodies explored, by name; `v`, `t` and `zz` are declared nowhere
BodyCommands(name) ==
    CASE name = "empty" -> <<>>
      [] name = "spawn" -> <<CSpawn("Ant", EInt(0), EInt(0))>>
      [] name = "return_x" -> <<CReturn(EDot(Self, "x"))>>
      [] name = "move" ->
           <<CAssign(EDot(Self, "x"), EBinaryOp(EDot(Self, "x"), "+", EInt(1)))>>
      [] name = "property" -> <<CAssign(EVar("v"), EBinaryOp(EVar("mate"), "+", EVar("width")))>>
      [] name = "local" -> <<CAssign(EVar("t"), EInt(1)), CAssign(EVar("v"), EVar("t"))>>
      [] name = "for_a" ->
           <<CFor("a", "environment", <<CAssign(EVar("v"), EDot(EVar("a"), "x"))>>)>>
      [] name = "undefined_value" -> <<CAssign(EVar("v"), EVar("zz"))>>
      [] name = "undefined_condition" ->
           <<CIf(BGreater(EVar("zz"), EInt(0)), <<>>, <<>>)>>
      [] name = "undefined_argument" -> <<CExp(ECall("len", <<EVar("zz")>>))>>
      [] name = "undefined_coordinate" -> <<CSpawn("Ant", EVar("zz"), EInt(0))>>
      [] name = "undefined_object" -> <<CAssign(EDot(EVar("zz"), "x"), EInt(1))>>
      [] name = "undefined_list" -> <<CAssign(EIndex(EVar("zz"), EInt(0)), EInt(1))>>
      [] name = "undefined_index" -> <<CAssign(EIndex(EVar("genes"), EVar("zz")), EInt(1))>>
      [] name = "string_minus" ->
           <<CAssign(EVar("v"), EBinaryOp(EString("a"), "-", EInt(1)))>>

WellScoped == {"empty", "spawn", "property", "local", "for_a"}
WithSelf == {"return_x", "move"}
UsesUndefined == {"undefined_value", "undefined_condition", "undefined_argument",
                  "undefined_coordinate", "undefined_object", "undefined_list",
                  "undefined_index"}
BodyNames == WellScoped \cup WithSelf \cup UsesUndefined \cup {"string_minus"}

\* validate_program 41-69: the routine, the SPAWN block (no `self` in
\* scope), the FITNESS block and the rule `mutation`, in this order
validate_program(bodies) ==
    LET locals == [self |-> "Object"] @@ globals
    IN check_commands(BodyCommands(bodies.routine), locals, known_props)
       \o check_commands(BodyCommands(bodies.spawn), globals, known_props)
       \o check_commands(BodyCommands(bodies.fitness), locals, known_props)
       \o check_commands(BodyCommands(bodies.mutation), locals, known_props)

\* the orders the blocks are written in
Orders ==
    {<<"ENVIRONMENT", "SPECIES", "EVOLVE", "FITNESS", "MUTATE", "SPAWN", "VISUALIZE">>,
     <<"VISUALIZE", "SPAWN", "MUTATE", "FITNESS", "EVOLVE", "SPECIES", "ENVIRONMENT">>,
     <<"FITNESS", "stray", "SPAWN", "ENVIRONMENT", "VISUALIZE", "MUTATE", "SPECIES",
       "EVOLVE">>}

\* the source texts: an order, the blocks left out, at most one block that
\* its sub-parser rejects
Sources ==
    {SelectSeq([j \in 1..Len(order) |->
                   <<order[j], IF order[j] = bad THEN "bad" ELSE "ok">>],
               LAMBDA item : item[1] \notin omitted) :
        order \in Orders, omitted \in SUBSET (Range(Mandatory) \cup {"VISUALIZE"}),
        bad \in Range(Mandatory) \cup {"VISUALIZE", "none"}}

\* the body that differs from the plain program's: one block at a time
BodyChoices ==
    {[routine |-> r, spawn |-> "spawn", fitness |-> "return_x", mutation |-> "move"] :
        r \in BodyNames}
    \cup {[routine |-> "move", spawn |-> s, fitness |-> "return_x", mutation |-> "move"] :
        s \in BodyNames}
    \cup {[routine |-> "move", spawn |-> "spawn", fitness |-> f, mutation |-> "move"] :
        f \in BodyNames}
    \cup {[routine |-> "move", spawn |-> "spawn", fitness |-> "return_x", mutation |-> m] :
        m \in BodyNames}

PlainBodies == [routine |-> "move", spawn |-> "spawn", fitness |-> "return_x",
                mutation |-> "move"]

\* main 29-43: the file has been read
InitMain ==
    /\ \E items \in Sources, bodies \in BodyChoices :
          /\ bodies # PlainBodies => parse_program(items).ok
          /\ front = [stage |-> "read", items |-> items, bodies |-> bodies,
                      parse |-> [ok |-> FALSE, msg |-> "", block |-> ""],
                      errors |-> <<>>]
    /\ EngineOff("main")
    /\ grid = NoGrid
    /\ ev = NoEval
    /\ tls = NoThreads

\* main 45-51: parse_program; a parse error ends the run
Parse ==
    /\ pc = "main" /\ front.stage = "read"
    /\ With(parse_program(front.items), LAMBDA r :
            front' = [front EXCEPT !.parse = r,
                                   !.stage = IF r.ok THEN "parsed" ELSE "parse_error"])
    /\ UNCHANGED <<engine, grid, ev, tls>>

\* main 54-58: validate_program; a non-empty error list ends the run
Validate ==
    /\ pc = "main" /\ front.stage = "parsed"
    /\ With(validate_program(front.bodies), LAMBDA errors :
            front' = [front EXCEPT !.errors = errors,
                                   !.stage = IF errors = <<>> THEN "validated"
                                             ELSE "semantic_errors"])
    /\ UNCHANGED <<engine, grid, ev, tls>>

\* main 60-71: the worlds are created and spawned, the GUI takes over
CreateWorlds ==
    /\ pc = "main" /\ front.stage = "validated"
    /\ With(seed_worlds(0, program.instances, <<<<"Ant">>>>, Heap), LAMBDA r :
            /\ instances' = r.worlds
            /\ SetHeap(r.H))
    /\ nworlds' = program.instances
    /\ front' = [front EXCEPT !.stage = "running"]
    /\ UNCHANGED <<program, history, current_gen_idx, current_step_idx, current_gen,
                   running, global_best_fitness, pc, wpc, held, removed, grid, ev, tls>>

NextMain == Parse \/ Validate \/ CreateWorlds

SpecMain == InitMain /\ [][NextMain]_vars

\* the mandatory blocks the source text does not hold at top level
Missing(items) == Range(Mandatory) \ {items[j][1] : j \in 1..Len(items)}

\* every block of the text is accepted by its sub-parser
WellFormed(items) == \A j \in 1..Len(items) : items[j][2] = "ok"

\* C16, as claimed: parse_program returns Ok only if each of the six
\* mandatory blocks was met at top level, and if one is missing it returns
\* an error whose message names a missing block, in every order of the
\* blocks and with or without VISUALIZE.
C16_MissingBlockIsNamed ==
    front.stage # "read" =>
        /\ front.parse.ok => Missing(front.items) = {}
        /\ Missing(front.items) # {} =>
              /\ ~front.parse.ok
              /\ front.parse.msg = "Missing obligatory"
              /\ front.parse.block \in Missing(front.items)

\* C16, amended: the same for the texts whose blocks are all accepted by
\* their sub-parsers.
C16_MissingBlockIsNamedWhenBlocksParse ==
    front.stage # "read" =>
        /\ front.parse.ok => Missing(front.items) = {}
        /\ (Missing(front.items) # {} /\ WellFormed(front.items)) =>
              /\ ~front.parse.ok
              /\ front.parse.msg = "Missing obligatory"
              /\ front.parse.block \in Missing(front.items)

\* MUTATE alone is missing from a text that holds VISUALIZE and a stray
\* token and begins with FITNESS
C16_Witness ==
    /\ front.stage = "parse_error"
    /\ Missing(front.items) = {"MUTATE"}
    /\ WellFormed(front.items)
    /\ front.items[1][1] = "FITNESS"
    /\ <<"VISUALIZE", "ok">> \in Range(front.items)
    /\ front.parse.block = "MUTATE"

\* the variables an expression names
RECURSIVE VarsOfExp(_), VarsOfExps(_), VarsRead(_), Declared_in(_)
VarsOfExp(exp) ==
    CASE exp.k = "Var" -> {exp.name}
      [] exp.k = "BinaryOp" -> VarsOfExp(exp.left) \cup VarsOfExp(exp.right)
      [] exp.k = "Dot" -> VarsOfExp(exp.obj)
      [] exp.k = "Index" -> VarsOfExp(exp.list) \cup VarsOfExp(exp.idx)
      [] exp.k = "List" -> VarsOfExps(exp.items)
      [] exp.k = "Call" -> VarsOfExps(exp.args)
      [] OTHER -> {}

VarsOfExps(exps) ==
    IF exps = <<>> THEN {} ELSE VarsOfExp(Head(exps)) \cup VarsOfExps(Tail(exps))

\* the variables the commands use: every variable of their expressions,
\* except a variable that is itself the target of an assignment
VarsRead(cmds) ==
    IF cmds = <<>> THEN {}
    ELSE LET cmd == Head(cmds)
         IN (CASE cmd.k = "Assign" ->
                    VarsOfExp(cmd.value)
                    \cup (IF cmd.target.k = "Var" THEN {} ELSE VarsOfExp(cmd.target))
               [] cmd.k = "If" ->
                    VarsOfExp(cmd.condition.left) \cup VarsOfExp(cmd.condition.right)
                    \cup VarsRead(cmd.then_block) \cup VarsRead(cmd.else_block)
               [] cmd.k = "Spawn" -> VarsOfExp(cmd.x) \cup VarsOfExp(cmd.y)
               [] cmd.k \in {"Return", "Exp"} -> VarsOfExp(cmd.exp)
               [] cmd.k = "For" -> VarsRead(cmd.body))
            \cup VarsRead(Tail(cmds))

\* the variables the commands bring into scope
Declared_in(cmds) ==
    IF cmds = <<>> THEN {}
    ELSE LET cmd == Head(cmds)
         IN (CASE cmd.k = "Assign" /\ cmd.target.k = "Var" -> {cmd.target.name}
               [] cmd.k = "For" -> {cmd.var} \cup Declared_in(cmd.body)
               [] OTHER -> {})
            \cup Declared_in(Tail(cmds))

\* the body uses a variable that is neither in scope nor a known property
UndefinedUse(name, scope) ==
    VarsRead(BodyCommands(name))
      \ (scope \cup DOMAIN known_props \cup Declared_in(BodyCommands(name))) # {}

\* C17: no world is created, spawned or stepped unless parsing succeeded and
\* validate_program returned Ok: after a parse error or with a non-empty
\* error list the run ends with no world, and a program one of whose
\* routine, SPAWN, FITNESS or mutation bodies uses a variable that is
\* neither in scope nor a known property never gets a world.
C17_NoWorldWithoutValidProgram ==
    /\ instances # <<>> => front.stage = "running"
    /\ front.stage \in {"parse_error", "semantic_errors"} => instances = <<>>
    /\ front.stage = "running" =>
          /\ front.parse.ok
          /\ front.errors = <<>>
          /\ ~UndefinedUse(front.bodies.routine, DOMAIN globals \cup {"self"})
          /\ ~UndefinedUse(front.bodies.spawn, DOMAIN globals)
          /\ ~UndefinedUse(front.bodies.fitness, DOMAIN globals \cup {"self"})
          /\ ~UndefinedUse(front.bodies.mutation, DOMAIN globals \cup {"self"})

---------------------------------------------------------------------------
(* `self == environment[self.x][self.y]`, evaluated by every agent of a    *)
(* world in turn during one pass, against the grid cache the pass built    *)
(* from the agent list.  Agent j of grid.individuals is the Object j.      *)

MaxCellAgents == 3      \* most agents of the world

CellWidths == {3, I32Max}
CellPositions == {[x |-> 0, y |-> 0], [x |-> 2, y |-> 1], [x |-> 5, y |-> 1],
                  [x |-> 0 - 1, y |-> 0 - 1], [x |-> 2147483646, y |-> 0]}

CellAgentLists == UNION {[1..n -> CellPositions] : n \in 2..MaxCellAgents}

\* World::step 33-39 / calculate_total_fitness 93-95: the dimensions are set
\* and the grid cache is built from the agents of the world
InitCell ==
    /\ \E width \in CellWidths, individuals \in CellAgentLists,
          overflow_checks \in BOOLEAN :
          grid = [width |-> width, height |-> 2, individuals |-> individuals,
                  cache |-> build_grid_cache(individuals),
                  overflow_checks |-> overflow_checks,
                  queries |-> [j \in 1..Len(individuals) |->
                                  <<individuals[j].x, individuals[j].y>>],
                  results |-> <<>>]
    /\ EngineOff("cell")
    /\ ev = NoEval
    /\ tls = NoThreads
    /\ front = NoFront

\* BExp::Equal of Var self and Index(Index(environment, self.x), self.y) in
\* the body of the next agent; a panic ends the pass
EvalSelfCell ==
    /\ pc = "cell"
    /\ Len(grid.results) < Len(grid.individuals)
    /\ \A k \in 1..Len(grid.results) : grid.results[k].val # Panicked
    /\ LET j == Len(grid.results) + 1
       IN With(eval_to_val_GridCell(grid.queries[j][1], grid.queries[j][2], grid),
               LAMBDA cell :
          grid' = [grid EXCEPT !.results =
                      Append(@, [val |-> cell.val,
                                 equal |-> values_are_equal(VObject(j), cell.val)])])
    /\ UNCHANGED <<engine, ev, tls, front>>

NextCell == EvalSelfCell

SpecCell == InitCell /\ [][NextCell]_vars

\* the pass has evaluated the condition for every agent, or has panicked
CellPassOver ==
    \/ Len(grid.results) = Len(grid.individuals)
    \/ \E k \in 1..Len(grid.results) : grid.results[k].val = Panicked

\* C18: when two agents of the world store the same (x, y), the condition
\* `self == environment[self.x][self.y]` evaluates to true for exactly one
\* of the two, wherever the position lies and whatever other agents the
\* world holds.
C18_ExactlyOneOfTwoResolves ==
    (pc = "cell" /\ CellPassOver) =>
        \A i \in 1..Len(grid.individuals), j \in 1..Len(grid.individuals) :
            (i < j /\ grid.individuals[i] = grid.individuals[j]) =>
                /\ j <= Len(grid.results)
                /\ grid.results[i].val # Panicked /\ grid.results[j].val # Panicked
                /\ grid.results[i].equal # grid.results[j].equal

---------------------------------------------------------------------------
(* The frames of a generation (Spec).                                      *)

\* what an agent's environment holds apart from the keys the fitness pass
\* adds: its position and the items of its list
Shape(ind) ==
    LET store == envs[ind.env]
    IN <<ind.species, store["x"], store["y"],
         IF "genes" \in DOMAIN store THEN lists[store["genes"].v] ELSE <<>>>>

GenesLen(ind) == Len(lists[envs[ind.env]["genes"].v])

\* C19: in one run_generation with S = ENVIRONMENT steps every world runs
\* step() S times, then appends the final frame, then computes its fitness:
\*  - while the worlds run, a world that has done t ticks holds t frames, and
\*    S + 1 once it has finished; frame t + 1 shows the agents one tick after
\*    frame t (the routine `push` has added one item to every Ant's list, the
\*    agents spawned during tick t come after those of frame t), and the last
\*    frame shows the agents as they are when the fitness is computed (the
\*    contents are compared for the programs whose worlds share no list);
\*  - every snapshot of the log has S + 1 frames in its step_history;
\*  - once the generation is recorded every world's history is empty and its
\*    record_history is false.
C19_FramesOfAGeneration ==
    /\ pc = "par" =>
         \A i \in 1..Len(instances) :
            LET w == instances[i]
                S == program.env_steps
            IN /\ w.record_history
               /\ Len(w.history) = wpc[i]
               /\ wpc[i] <= S + 1
               /\ \A f \in 1..(Len(w.history) - 1) :
                     /\ Len(w.history[f]) <= Len(w.history[f + 1])
                     /\ (program.routine = "push" /\ program.crossover # "xgenes") =>
                           \A k \in 1..Len(w.history[f]) :
                              w.history[f][k].species = "Ant" =>
                                 GenesLen(w.history[f + 1][k]) = GenesLen(w.history[f][k]) + 1
               /\ wpc[i] = S + 1 =>
                     /\ Len(w.history[S + 1]) = Len(w.individuals)
                     /\ program.crossover # "xgenes" =>
                           \A k \in 1..Len(w.individuals) :
                              Shape(w.history[S + 1][k]) = Shape(w.individuals[k])
    /\ \A g \in 1..Len(history) : Len(history[g].step_history) = program.env_steps + 1
    /\ pc \in {"breed", "idle"} =>
         \A i \in 1..Len(instances) :
            instances[i].history = <<>> /\ ~instances[i].record_history

\* a generation of two ticks has been recorded and the next one has run its
\* worlds to the end
C19_Witness ==
    /\ pc = "par"
    /\ program.env_steps = 2
    /\ program.routine = "push"
    /\ history # <<>>
    /\ \A i \in 1..Len(instances) : wpc[i] = 3 /\ Len(instances[i].history) = 3

---------------------------------------------------------------------------
(* World::calculate_total_fitness over the agents of one world, with the   *)
(* FITNESS block interpreted command by command.  The blocks, by name:     *)
(*   "return_x":          return self.x                                    *)
(*   "two_returns":       return self.x   return 9                         *)
(*   "score_then_return": score = 7   return self.x                        *)
(*   "return_genes":      return self.genes                                *)
(*   "if_return":         if (self.x > 0) { return self.x }                *)
(*   "score_x":           score = self.x                                   *)
(*   "no_return":         t = self.x                                       *)
(*   "empty":             (no command)                                     *)

MaxFitnessAgents == 2      \* most agents of the world

fitness_block(name) ==
    CASE name = "return_x" -> <<CReturn(EDot(Self, "x"))>>
      [] name = "two_returns" -> <<CReturn(EDot(Self, "x")), CReturn(EInt(9))>>
      [] name = "score_then_return" ->
             <<CAssign(EVar("score"), EInt(7)), CReturn(EDot(Self, "x"))>>
      [] name = "return_genes" -> <<CReturn(Genes)>>
      [] name = "if_return" ->
             <<CIf(BGreater(EDot(Self, "x"), EInt(0)), <<CReturn(EDot(Self, "x"))>>, <<>>)>>
      [] name = "score_x" -> <<CAssign(EVar("score"), EDot(Self, "x"))>>
      [] name = "no_return" -> <<CAssign(EVar("t"), EDot(Self, "x"))>>
      [] OTHER -> <<>>

FitnessBlocks == {"return_x", "two_returns", "score_then_return", "return_genes",
                  "if_return", "score_x", "no_return", "empty"}

\* an agent as the steps left it: <<x, whether a routine set `score`, its value>>
FitnessAgents == {<<0 - 3, FALSE, 0>>, <<0 - 1, FALSE, 0>>, <<0, FALSE, 0>>,
                  <<2, FALSE, 0>>, <<0 - 1, TRUE, 4>>, <<2, TRUE, 0 - 2>>,
                  <<0, TRUE, 0>>}

FitnessAgentLists == UNION {[1..n -> FitnessAgents] : n \in 1..MaxFitnessAgents}

\* the environment of agent j of the world is <<1, j>>
FitnessHeap(agents) ==
    [envs |-> [a \in {<<1, j>> : j \in 1..Len(agents)} |->
                  LET own == [species |-> VString("Ant"), mate |-> VInt(0),
                              genes |-> VList(a), x |-> VInt(agents[a[2]][1]),
                              y |-> VInt(0)]
                  IN IF agents[a[2]][2]
                     THEN Insert(own, "score", VInt(agents[a[2]][3]))
                     ELSE own],
     lists |-> [a \in {<<1, j>> : j \in 1..Len(agents)} |-> <<VInt(1)>>]]

\* World::calculate_fitness: the commands run in the agent's own
\* environment after `self` is inserted; the first Some(val) is returned
\* as an integer, else a nonzero `score`, else 0.  An empty block inserts
\* nothing and reads nothing.
World_calculate_fitness(commands, ind, individuals, H) ==
    IF commands = <<>> THEN [H |-> H, score |-> 0]
    ELSE With(execute_block(commands,
                            [env |-> ind.env, individuals |-> individuals, rnd |-> 0,
                             overflow_checks |-> FALSE],
                            assign_Var(H, ind.env, "self", VObject(ind.env)), 1),
              LAMBDA result :
         IF result.ret.some THEN [H |-> result.H, score |-> to_int(result.ret.val)]
         ELSE LET store == result.H.envs[ind.env]
                  score == IF "score" \in DOMAIN store THEN to_int(store["score"]) ELSE 0
              IN [H |-> result.H, score |-> IF score # 0 THEN score ELSE 0])

\* the loop of World::calculate_total_fitness; `scores` records what
\* calculate_fitness returned for each agent
RECURSIVE World_fitness_loop(_, _, _, _, _, _)
World_fitness_loop(i, commands, individuals, H, best, scores) ==
    IF Now(H) /\ i > Len(individuals) THEN [H |-> H, best |-> best, scores |-> scores]
    ELSE With(World_calculate_fitness(commands, individuals[i], individuals, H),
              LAMBDA f :
         World_fitness_loop(i + 1, commands, individuals,
                            assign_Var(f.H, individuals[i].env, "fitness", VInt(f.score)),
                            IF f.score > best THEN f.score ELSE best,
                            Append(scores, f.score)))

\* World::calculate_total_fitness: `let mut best = 0;`, the loop,
\* `self.fitness = best; best`
World_calculate_total_fitness(commands, individuals, H) ==
    World_fitness_loop(1, commands, individuals, H, 0, <<>>)

\* gui.rs 86-91: the steps of the generation are over, the world is about
\* to be scored; World::new left its fitness at 0
InitFitness ==
    /\ \E name \in FitnessBlocks, agents \in FitnessAgentLists :
          ev = [block |-> name, agents |-> agents,
                individuals |-> [j \in 1..Len(agents) |->
                                    [species |-> "Ant", env |-> <<1, j>>]],
                H |-> FitnessHeap(agents), fitness |-> 0, scores |-> <<>>,
                scored |-> FALSE]
    /\ EngineOff("fitness")
    /\ grid = NoGrid
    /\ tls = NoThreads
    /\ front = NoFront

\* calculate_total_fitness of the world (its grid cache and dimensions are
\* BeginFitness and EndFitness above; no block here reads them)
CalculateTotalFitness ==
    /\ pc = "fitness"
    /\ ~ev.scored
    /\ With(World_calculate_total_fitness(fitness_block(ev.block), ev.individuals, ev.H),
            LAMBDA r :
            ev' = [ev EXCEPT !.H = r.H, !.fitness = r.best, !.scores = r.scores,
                             !.scored = TRUE])
    /\ UNCHANGED <<engine, grid, tls, front>>

NextFitness == CalculateTotalFitness

SpecFitness == InitFitness /\ [][NextFitness]_vars

\* the score the agent is to get from the block: the value of the first
\* Return reached, else its `score` variable if set and nonzero, else 0
ScoreOf(block, agent) ==
    LET x == agent[1]
        score == IF agent[2] THEN agent[3] ELSE 0
    IN CASE block \in {"return_x", "two_returns", "score_then_return"} -> x
         [] block = "return_genes" -> 0
         [] block = "if_return" -> IF x > 0 THEN x ELSE score
         [] block = "score_x" -> x
         [] OTHER -> score

RECURSIVE MaxOf(_)
MaxOf(s) ==
    IF Len(s) = 1 THEN s[1]
    ELSE LET m == MaxOf(Tail(s)) IN IF s[1] > m THEN s[1] ELSE m

\* C20: after calculate_total_fitness every agent's score is the integer
\* value of the first Return reached in the fitness block, else the agent's
\* `score` variable if it is set and nonzero, else 0; the score is stored
\* in the agent's `fitness` field; and the world's fitness is the maximum
\* of its agents' scores, also when every score is negative.
C20_ScoresAndBestAgent ==
    (pc = "fitness" /\ ev.scored) =>
        /\ \A j \in 1..Len(ev.agents) :
              /\ ev.scores[j] = ScoreOf(ev.block, ev.agents[j])
              /\ ev.H.envs[<<1, j>>]["fitness"] = VInt(ev.scores[j])
        /\ ev.fitness = MaxOf(ev.scores)

---------------------------------------------------------------------------
(* World::mutate over the agents of one world, the rule `mutation` having  *)
(* the body "observe" (each agent sums the x of the world view it is       *)
(* handed, then moves by 10), "move" or no rule at all.                    *)

MaxMutateAgents == 3      \* most agents of the world

MutationBodies == {"observe", "move", "none"}

MutateAgentLists ==
    UNION {[1..n -> {<<x, FALSE, 0>> : x \in 0..2}] : n \in 1..MaxMutateAgents}

\* evolution.rs 116: a child world with its agents, about to be mutated
InitMutate ==
    /\ \E body \in MutationBodies, agents \in MutateAgentLists :
          /\ program = Prog(1, 0, 1, "idle", "x", body, "none", Len(agents), FALSE)
          /\ ev = [agents |-> agents,
                   individuals |-> [j \in 1..Len(agents) |->
                                       [species |-> "Ant", env |-> <<1, j>>]],
                   H |-> FitnessHeap(agents), mutated |-> FALSE]
    /\ envs = <<>>
    /\ lists = <<>>
    /\ instances = <<>>
    /\ history = <<>>
    /\ current_gen_idx = 0
    /\ current_step_idx = 1
    /\ current_gen = 0
    /\ running = FALSE
    /\ global_best_fitness = 0
    /\ pc = "mutate"
    /\ wpc = <<>>
    /\ held = {}
    /\ removed = <<>>
    /\ nworlds = 0
    /\ grid = NoGrid
    /\ tls = NoThreads
    /\ front = NoFront

\* World::mutate of the world
Mutate ==
    /\ pc = "mutate"
    /\ ~ev.mutated
    /\ ev' = [ev EXCEPT !.H = mutate([individuals |-> ev.individuals], ev.H),
                        !.mutated = TRUE]
    /\ UNCHANGED <<engine, grid, tls, front>>

NextMutate == Mutate

SpecMutate == InitMutate /\ [][NextMutate]_vars

RECURSIVE SumX(_)
SumX(agents) == IF agents = <<>> THEN 0 ELSE Head(agents)[1] + SumX(Tail(agents))

\* C21: the world view handed to a mutation body is a snapshot taken before
\* any mutation ran: the sum agent k forms over `for a in environment` is
\* the sum of the pre-mutation x of every agent, whatever the mutations of
\* the agents before k wrote in the same mutate() call.
C21_MutationSeesPreMutationView ==
    (pc = "mutate" /\ ev.mutated /\ program.mutation = "observe") =>
        \A k \in 1..Len(ev.agents) :
            ev.H.envs[<<1, k>>]["seen"] = VInt(SumX(ev.agents))

---------------------------------------------------------------------------
(* The end of a generation from the ranking on (gui.rs 94-171): worlds     *)
(* that hold different numbers of agents, possibly none, have been stepped *)
(* and scored; run_generation ranks them, records the winner and calls     *)
(* create_next_generation.  Agent j of world w stands at x = 10 w + j and  *)
(* carries, besides the declared properties of Ant, what a run leaves in   *)
(* an agent: `fitness`, a loop variable `a` and a dynamic property `seen`. *)

MaxBreedInstances == 4     \* largest EVOLVE instances of the populations
MaxBreedAgents == 2        \* most agents of a world

BreedCounts == UNION {[1..n -> 0..MaxBreedAgents] : n \in 1..MaxBreedInstances}

BreedAddrs(counts) ==
    {a \in (1..Len(counts)) \X (1..MaxBreedAgents) : a[2] <= counts[a[1]]}

BreedHeap(counts) ==
    [envs |-> [a \in BreedAddrs(counts) |->
                  [species |-> VString("Ant"), x |-> VInt(10 * a[1] + a[2]), y |-> VInt(0),
                   mate |-> VInt(0), genes |-> VList(a), self |-> VObject(a),
                   fitness |-> VInt(10 * a[1] + a[2]), a |-> VObject(<<a[1], 1>>),
                   seen |-> VInt(3)]],
     lists |-> [a \in BreedAddrs(counts) |-> <<VInt(a[1])>>]]

\* gui.rs 71-91 with no step: each world, recording, has pushed the frame
\* of its final state and holds the fitness calculate_total_fitness gave it
RECURSIVE breed_worlds(_, _, _)
breed_worlds(w, counts, H) ==
    IF Now(H) /\ w > Len(counts) THEN [worlds |-> <<>>, H |-> H]
    ELSE LET individuals == [j \in 1..counts[w] |-> [species |-> "Ant", env |-> <<w, j>>]]
         IN With(deep_clone_all(individuals, H, w), LAMBDA h :
            With(breed_worlds(w + 1, counts, h.H), LAMBDA r :
            [worlds |-> <<[World_new(w - 1, w) EXCEPT
                              !.individuals = individuals,
                              !.fitness = IF counts[w] = 0 THEN 0 ELSE 10 * w + counts[w],
                              !.record_history = TRUE,
                              !.history = <<h.inds>>]>> \o r.worlds,
             H |-> r.H]))

InitBreed ==
    /\ \E counts \in BreedCounts, mutation \in {"none", "move"},
          crossover \in {"none", "xboth"} :
          /\ program = Prog(Len(counts), 0, 1, "idle", "x", mutation, crossover,
                            MaxBreedAgents, TRUE)
          /\ With(breed_worlds(1, counts, BreedHeap(counts)), LAMBDA r :
                  /\ instances = r.worlds
                  /\ envs = r.H.envs
                  /\ lists = r.H.lists)
    /\ history = <<>>
    /\ current_gen_idx = 0
    /\ current_step_idx = 1
    /\ current_gen = 1
    /\ running = TRUE
    /\ global_best_fitness = 0
    /\ pc = "par"
    /\ wpc = [i \in 1..Len(instances) |-> 1]
    /\ held = {}
    /\ removed = <<>>
    /\ nworlds = Len(instances)
    /\ grid = NoGrid
    /\ ev = NoEval
    /\ tls = NoThreads
    /\ front = NoFront

NextBreed == RankAndRecord \/ CreateNextGeneration

SpecBreed == InitBreed /\ [][NextBreed]_vars

\* the (child, agent) pairs of the non-elite children of the new generation
CrossedPairs ==
    {p \in (1..Len(instances')) \X (1..MaxBreedAgents + 1) :
        p[1] - 1 >= Keep /\ p[2] <= Len(instances'[p[1]].individuals)}

\* the temporary environments create_next_generation allocated
CrossoverEnvs == {a \in DOMAIN envs' \ DOMAIN envs : a[1] = 0}

Moved == IF program.mutation = "move" THEN 1 ELSE 0

\* C22: in a step of create_next_generation with the rule
\* `crossover { child.x = parent2.x  parent1.mark = 1 }`, the body has run
\* once for every agent j of every child i >= keep, with parent1 and child
\* bound to the child's agent j and parent2 to agent j of the old world
\* ranked (i + 1) mod keep, and for no agent of a child i < keep; the
\* temporary environments are empty afterwards; and mutate() ran on every
\* child after its crossover.
C22_CrossoverForNonElite ==
    [][(pc = "breed" /\ pc' # "breed" /\ program.crossover = "xboth") =>
          /\ pc' = "idle"
          /\ Len(instances') = program.instances
          /\ \A i \in 0..(program.instances - 1) :
                LET child == instances'[i + 1]
                    parent == instances[(i % Keep) + 1]
                    p2 == instances[((i + 1) % Keep) + 1]
                IN \A j \in 1..Len(child.individuals) :
                      LET store == envs'[child.individuals[j].env]
                      IN IF i >= Keep
                         THEN /\ "mark" \in DOMAIN store
                              /\ store["mark"] = VInt(1)
                              /\ store["x"] =
                                    VInt(envs[p2.individuals[j].env]["x"].v + Moved)
                         ELSE /\ "mark" \notin DOMAIN store
                              /\ store["x"] =
                                    VInt(envs[parent.individuals[j].env]["x"].v + Moved)
          /\ Cardinality(CrossoverEnvs) = Cardinality(CrossedPairs)
          /\ \A a \in CrossoverEnvs : envs'[a] = EmptyStore]_vars

\* C30: create_next_generation completes without fault and returns exactly
\* num_instances worlds, whatever the numbers of agents of the ranked old
\* worlds (a crossover partner with fewer agents than the child, a world
\* with no agent).
C30_NextGenerationCompletes ==
    /\ pc # "panic"
    /\ pc = "idle" => Len(instances) = program.instances

\* the keys a schema-restricted copy of an agent of `species` may hold
SchemaKeys(species) ==
    {"x", "y", "species", "self"} \cup Range(species_properties(species))

\* the copy's value is the parent's: a List by its content, anything else
\* as it stands
SameValue(copy_val, parent_val) ==
    IF parent_val.t = "List"
    THEN copy_val.t = "List" /\ lists'[copy_val.v] = lists[parent_val.v]
    ELSE copy_val = parent_val

\* the store of `copy` after the step against the store of `parent` before it
SchemaCopyOf(copy, parent) ==
    LET store == envs'[copy.env]
        from == envs[parent.env]
    IN /\ copy.species = parent.species
       /\ copy.env # parent.env
       /\ DOMAIN store \subseteq SchemaKeys(parent.species)
       /\ \A k \in DOMAIN store :
             CASE k = "self" -> store[k] = VObject(copy.env)
               [] k = "species" -> store[k] = VString(parent.species)
               [] OTHER -> k \in DOMAIN from /\ SameValue(store[k], from[k])
       /\ DOMAIN store \cap {"fitness", "score", "a", "seen"} = {}

SchemaCopiesOf(copies, parents) ==
    /\ Len(copies) = Len(parents)
    /\ \A j \in 1..Len(copies) : SchemaCopyOf(copies[j], parents[j])

\* C23: the copy of an agent in the GenerationSnapshot pushed by the ranking
\* step, and its clone in a child world of a program with neither crossover
\* nor mutation rule (the clone as create_next_generation made it), hold
\* only x, y, species, self and the properties declared for the species,
\* each with the parent's value; fitness, the loop variable and the dynamic
\* property of the parent are absent.
C23_SchemaRestrictedCopies ==
    [][/\ (pc = "par" /\ pc' = "breed") =>
             SchemaCopiesOf(history'[Len(history')].individuals, instances'[1].individuals)
       /\ (pc = "breed" /\ pc' = "idle" /\ program.mutation = "none"
             /\ program.crossover = "none") =>
             \A i \in 0..(program.instances - 1) :
                 SchemaCopiesOf(instances'[i + 1].individuals,
                                instances[(i % Keep) + 1].individuals)]_vars

C23_Witness ==
    /\ pc = "idle"
    /\ program.mutation = "none" /\ program.crossover = "none"
    /\ Len(instances) = MaxBreedInstances
    /\ \A i \in 1..Len(instances) :
          /\ Len(instances[i].individuals) = MaxBreedAgents
          /\ DOMAIN envs[instances[i].individuals[1].env] =
                {"x", "y", "species", "self", "mate", "genes"}
    /\ Len(history) = 1
    /\ Len(history[1].individuals) = MaxBreedAgents

---------------------------------------------------------------------------
(* Command::Spawn with default-property expressions that are not all       *)
(* literals.  The species definitions, by name, in the order the program   *)
(* declares the properties:                                                *)
(*   "Plain": energy: 5, genes: []       "Sum":   n: 2 + 3, m: 1           *)
(*   "Chain": a: 2, b: a + 1             "Alias": a: 2, b: a               *)
(*   "Sized": size: width, m: 1                                            *)
(* SpeciesDef.properties is a HashMap: the loop visits the properties in   *)
(* an order of its own.  The loop runs while `env_mut`, the write guard of *)
(* new_env, is alive, and evaluates each default against new_env: a        *)
(* default that reads a variable calls new_env.read() on the thread that   *)
(* holds the write lock, where std::sync::RwLock blocks forever or panics. *)

MaxDefaultSpawns == 1      \* most individuals already in the spawn buffer

properties(species) ==
    CASE species = "Plain" -> <<[name |-> "energy", exp |-> EInt(5)],
                                [name |-> "genes", exp |-> EList(<<>>)]>>
      [] species = "Sum" -> <<[name |-> "n", exp |-> EBinaryOp(EInt(2), "+", EInt(3))],
                              [name |-> "m", exp |-> EInt(1)]>>
      [] species = "Chain" -> <<[name |-> "a", exp |-> EInt(2)],
                                [name |-> "b", exp |-> EBinaryOp(EVar("a"), "+", EInt(1))]>>
      [] species = "Alias" -> <<[name |-> "a", exp |-> EInt(2)],
                                [name |-> "b", exp |-> EVar("a")]>>
      [] OTHER -> <<[name |-> "size", exp |-> EVar("width")],
                    [name |-> "m", exp |-> EInt(1)]>>

DefaultSpecies == {"Plain", "Sum", "Chain", "Alias", "Sized"}

\* the orders in which a HashMap of two properties is iterated
HashMapOrders == {<<1, 2>>, <<2, 1>>}

\* what read() does on a lock the thread holds for writing
RwLockOutcomes == {"deadlock", "panic"}

\* whether evaluating e takes the read lock of the environment it is
\* evaluated against: Exp::Var does, in eval and in eval_to_val, and so
\* does every expression that evaluates one
RECURSIVE reads_env(_)
reads_env(e) ==
    CASE e.k = "Var" -> TRUE
      [] e.k = "Dot" -> reads_env(e.obj)
      [] e.k = "BinaryOp" -> reads_env(e.left) \/ reads_env(e.right)
      [] e.k = "Index" -> reads_env(e.list) \/ reads_env(e.idx)
      [] e.k = "List" -> \E j \in 1..Len(e.items) : reads_env(e.items[j])
      [] e.k = "Call" -> \E j \in 1..Len(e.args) : reads_env(e.args[j])
      [] OTHER -> FALSE

\* `for (prop_name, prop_exp) in &species_def.properties { .. }` under the
\* write guard; `store` is env_mut.store
RECURSIVE properties_loop(_, _, _, _, _)
properties_loop(props, new_env, store, H, outcome) ==
    IF Now(H) /\ props = <<>> THEN [st |-> "ok", store |-> store, H |-> H]
    ELSE IF reads_env(Head(props).exp)
         THEN [st |-> outcome, store |-> store, H |-> H]
         ELSE With(Exp_eval_to_val(Head(props).exp,
                                   [env |-> new_env, individuals |-> <<>>, rnd |-> 0,
                                    overflow_checks |-> FALSE], H, 1), LAMBDA value :
              properties_loop(Tail(props), new_env,
                              Insert(store, Head(props).name, value.v), value.H, outcome))

\* Command::execute for Spawn { species, x, y }, x and y evaluated; `order`
\* is the HashMap's iteration order, `outcome` what the lock does
Spawn_execute(species, order, outcome, x_pos, y_pos, H, spawner, arena) ==
    LET new_env == NewAddr(DOMAIN H.envs, arena)
    IN With(properties_loop([k \in 1..Len(order) |-> properties(species)[order[k]]],
                            new_env, Insert(EmptyStore, "species", VString(species)),
                            AllocEnv(H, new_env, EmptyStore), outcome), LAMBDA p :
       IF p.st # "ok" THEN [st |-> p.st, H |-> p.H, spawner |-> spawner]
       ELSE [st |-> "ok",
             H |-> SetStore(p.H, new_env,
                            Insert(Insert(p.store, "x", VInt(x_pos)), "y", VInt(y_pos))),
             spawner |-> Append(spawner, [species |-> species, env |-> new_env])])

\* world.rs 52-55: a routine body of the agent <<1, 1>> is about to execute
\* `spawn <species> at (x, y)`; the buffer may hold an earlier spawn
InitDefaults ==
    /\ \E species \in DefaultSpecies, order \in HashMapOrders,
          outcome \in RwLockOutcomes, x_pos \in 0..2, y_pos \in 0..1,
          earlier \in 0..MaxDefaultSpawns :
          ev = [species |-> species, order |-> order, outcome |-> outcome,
                x_pos |-> x_pos, y_pos |-> y_pos, st |-> "run",
                individuals |-> <<[species |-> "Ant", env |-> <<1, 1>>]>>,
                spawner |-> [j \in 1..earlier |-> [species |-> "Ant", env |-> <<1, 1 + j>>]],
                H |-> [envs |-> [a \in {<<1, j>> : j \in 1..(1 + earlier)} |->
                                    [species |-> VString("Ant"), x |-> VInt(0),
                                     y |-> VInt(0), self |-> VObject(a)]],
                       lists |-> <<>>]]
    /\ EngineOff("spawn")
    /\ grid = NoGrid
    /\ tls = NoThreads
    /\ front = NoFront

\* the Spawn command is executed
ExecuteSpawn ==
    /\ pc = "spawn"
    /\ ev.st = "run"
    /\ With(Spawn_execute(ev.species, ev.order, ev.outcome, ev.x_pos, ev.y_pos, ev.H,
                          ev.spawner, 1), LAMBDA r :
            ev' = [ev EXCEPT !.st = r.st, !.H = r.H, !.spawner = r.spawner])
    /\ UNCHANGED <<engine, grid, tls, front>>

NextDefaults == ExecuteSpawn

SpecDefaults == InitDefaults /\ [][NextDefaults]_vars

\* the value the property b of the new individual is to have
ValueOfB(species) == IF species = "Chain" THEN VInt(3) ELSE VInt(2)

\* C24: executing a Spawn command terminates for every species definition
\* with the defaults evaluated in declared order, so that `b: a + 1` and
\* `b: a` after `a: 2` give b = 3 and b = 2; the new Individual is appended
\* to the spawn buffer, and the agent list is left alone.
C24_SpawnTerminatesWithDefaults ==
    [][(pc = "spawn" /\ ev.st = "run" /\ ev'.st # "run") =>
          /\ ev'.st = "ok"
          /\ Len(ev'.spawner) = Len(ev.spawner) + 1
          /\ SubSeq(ev'.spawner, 1, Len(ev.spawner)) = ev.spawner
          /\ ev'.individuals = ev.individuals
          /\ LET new == ev'.spawner[Len(ev'.spawner)]
             IN /\ new.species = ev.species
                /\ new.env \notin DOMAIN ev.H.envs
                /\ ev.species \in {"Chain", "Alias"} =>
                      /\ ev'.H.envs[new.env]["a"] = VInt(2)
                      /\ ev'.H.envs[new.env]["b"] = ValueOfB(ev.species)]_vars

---------------------------------------------------------------------------
(* One tick of World::step seen from the grid cache: the cache is built    *)
(* from the agent list when the tick begins, then each agent's routine     *)
(* runs in turn.  The routine is `t = get_at(qx, qy)` or                   *)
(* `t = environment[qx][qy]`, followed, in the moving programs, by         *)
(* `self.x = self.x + 1`.  Agent j of grid.individuals is the Object j.    *)

MaxTickAgents == 3      \* most agents of the world

TickPositions == {[x |-> 0, y |-> 0], [x |-> 1, y |-> 0], [x |-> 1, y |-> 1]}

TickAgentLists == UNION {[1..n -> TickPositions] : n \in 2..MaxTickAgents}

TickQueries == {<<0, 0>>, <<1, 0>>, <<2, 0>>, <<1, 1>>}

\* get_at's scan over the agent list: the first agent that stores (x, y)
RECURSIVE get_at_linear(_, _, _, _)
get_at_linear(individuals, j, x, y) ==
    IF j > Len(individuals) THEN VInt(0)
    ELSE IF individuals[j].x = x /\ individuals[j].y = y THEN VObject(j)
    ELSE get_at_linear(individuals, j + 1, x, y)

\* run_builtin "get_at" with both arguments evaluated: the cache first,
\* then the scan
run_builtin_get_at(x, y, g) ==
    IF g.cache.some /\ <<x, y>> \in DOMAIN g.cache.map
    THEN VObject(g.cache.map[<<x, y>>])
    ELSE get_at_linear(g.individuals, 1, x, y)

\* World::step 33-39: the dimensions are set and the cache is built; no
\* routine has run yet
InitTick ==
    /\ \E individuals \in TickAgentLists, q \in TickQueries,
          lookup \in {"get_at", "index"}, moving \in BOOLEAN :
          grid = [width |-> 3, height |-> 2, individuals |-> individuals,
                  cache |-> build_grid_cache(individuals), overflow_checks |-> FALSE,
                  queries |-> [j \in 1..Len(individuals) |-> q], results |-> <<>>,
                  lookup |-> lookup, moving |-> moving]
    /\ EngineOff("tick")
    /\ ev = NoEval
    /\ tls = NoThreads
    /\ front = NoFront

\* world.rs 41-57: the routine of the next agent runs
RoutineTurn ==
    /\ pc = "tick"
    /\ Len(grid.results) < Len(grid.individuals)
    /\ LET j == Len(grid.results) + 1
           q == grid.queries[j]
           val == IF grid.lookup = "get_at" THEN run_builtin_get_at(q[1], q[2], grid)
                  ELSE eval_to_val_GridCell(q[1], q[2], grid).val
       IN grid' = [grid EXCEPT !.results = Append(@, val),
                               !.individuals[j].x = IF grid.moving THEN @ + 1 ELSE @]
    /\ UNCHANGED <<engine, ev, tls, front>>

NextTick == RoutineTurn

SpecTick == InitTick /\ [][NextTick]_vars

\* the agent j stores the position asked for (exactly for get_at, up to the
\* wrap for environment[x][y])
StoresPosition(j, q, g) ==
    IF g.lookup = "get_at"
    THEN g.individuals[j].x = q[1] /\ g.individuals[j].y = q[2]
    ELSE /\ Congruent(g.individuals[j].x, q[1], g.width)
         /\ Congruent(g.individuals[j].y, q[2], g.height)

\* the first agent of the list that stores the position, 0 if none does
FirstAt(q, g) ==
    IF \E j \in 1..Len(g.individuals) : StoresPosition(j, q, g)
    THEN CHOOSE j \in 1..Len(g.individuals) :
            /\ StoresPosition(j, q, g)
            /\ \A i \in 1..(j - 1) : ~StoresPosition(i, q, g)
    ELSE 0

\* C25: whenever a lookup made during the tick is answered from the grid
\* cache, the agent returned stores the position asked for at that moment
\* and is the agent the linear scan of the agent list would return, also
\* after earlier routines of the tick moved agents and when two agents
\* share a cell.
C25_CacheHitMatchesAgentList ==
    [][(pc = "tick" /\ Len(grid'.results) = Len(grid.results) + 1) =>
          LET q == grid.queries[Len(grid.results) + 1]
              val == grid'.results[Len(grid'.results)]
          IN (grid.cache.some /\ q \in DOMAIN grid.cache.map) =>
                /\ val.t = "Object"
                /\ StoresPosition(val.v, q, grid)
                /\ val.v = FirstAt(q, grid)]_vars

---------------------------------------------------------------------------
(* The two evaluation paths on one expression: Exp::eval, and              *)
(* Exp::eval_to_val followed by Value::to_int.  The expression is          *)
(* evaluated in the agent's own environment (a routine, fitness or         *)
(* mutation body) or in a temporary environment whose body has set         *)
(* `self = child` (a crossover body); the agent holds a = 3, s = "7",      *)
(* flag = true and genes = [4, "12"].                                      *)

MaxPathOperand == 2      \* largest x the agent stores

PathExp(name) ==
    CASE name = "int" -> EInt(5)
      [] name = "bool" -> EBool(TRUE)
      [] name = "string_digits" -> EString("7")
      [] name = "string_signed" -> EString("-3")
      [] name = "string_word" -> EString("Ant")
      [] name = "string_plus" -> EBinaryOp(EString("7"), "+", EInt(1))
      [] name = "var_int" -> EVar("a")
      [] name = "var_string" -> EVar("s")
      [] name = "var_bool" -> EVar("flag")
      [] name = "var_x" -> EVar("x")
      [] name = "var_unset" -> EVar("nothing")
      [] name = "var_environment" -> EVar("environment")
      [] name = "dot" -> EDot(Self, "x")
      [] name = "dot_string" -> EDot(Self, "s")
      [] name = "dot_unset" -> EDot(Self, "nothing")
      [] name = "index" -> EIndex(Genes, EInt(0))
      [] name = "index_string" -> EIndex(Genes, EInt(1))
      [] name = "index_out" -> EIndex(Genes, EInt(5))
      [] name = "list" -> EList(<<EInt(1)>>)
      [] name = "len" -> ECall("len", <<Genes>>)
      [] OTHER -> EBinaryOp(EVar("a"), "*", EDot(Self, "x"))

PathExps == {"int", "bool", "string_digits", "string_signed", "string_word",
             "string_plus", "var_int", "var_string", "var_bool", "var_x", "var_unset",
             "var_environment", "dot", "dot_string", "dot_unset", "index",
             "index_string", "index_out", "list", "len", "product"}

\* the agent <<1, 1>> and the temporary environment <<0, 1>>
PathHeap(x) ==
    [envs |-> (<<1, 1>> :>
                  [species |-> VString("Ant"), x |-> VInt(x), y |-> VInt(0),
                   self |-> VObject(<<1, 1>>), genes |-> VList(<<1, 1>>), a |-> VInt(3),
                   s |-> VString("7"), flag |-> VBool(TRUE)])
              @@ (<<0, 1>> :>
                  [parent1 |-> VObject(<<1, 1>>), parent2 |-> VObject(<<1, 1>>),
                   child |-> VObject(<<1, 1>>), self |-> VObject(<<1, 1>>)]),
     lists |-> (<<1, 1>> :> <<VInt(4), VString("12")>>)]

PathContext ==
    [env |-> ev.env, individuals |-> <<[species |-> "Ant", env |-> <<1, 1>>]>>,
     rnd |-> 0, overflow_checks |-> FALSE]

\* an expression is about to be evaluated in the environment ev.env
InitPaths ==
    /\ \E name \in PathExps, env \in {<<1, 1>>, <<0, 1>>}, x \in 0..MaxPathOperand :
          ev = [exp |-> name, env |-> env, H |-> PathHeap(x),
                int |-> [some |-> FALSE, v |-> 0],
                val |-> [some |-> FALSE, v |-> VInt(0)]]
    /\ EngineOff("paths")
    /\ grid = NoGrid
    /\ tls = NoThreads
    /\ front = NoFront

\* Exp::eval of the expression
EvalInt ==
    /\ pc = "paths"
    /\ ~ev.int.some
    /\ ev' = [ev EXCEPT !.int = [some |-> TRUE,
                                 v |-> Exp_eval(PathExp(ev.exp), PathContext, ev.H, 1).v]]
    /\ UNCHANGED <<engine, grid, tls, front>>

\* Exp::eval_to_val of the expression
EvalToVal ==
    /\ pc = "paths"
    /\ ~ev.val.some
    /\ ev' = [ev EXCEPT !.val = [some |-> TRUE,
                                 v |-> Exp_eval_to_val(PathExp(ev.exp), PathContext,
                                                       ev.H, 1).v]]
    /\ UNCHANGED <<engine, grid, tls, front>>

NextPaths == EvalInt \/ EvalToVal

SpecPaths == InitPaths /\ [][NextPaths]_vars

\* integer coercion as the statement gives it: Int its value, Bool 1 or 0,
\* a String its parsed decimal or 0, everything else 0
Coerced(val) ==
    CASE val.t = "Int" -> val.v
      [] val.t = "Bool" -> IF val.v THEN 1 ELSE 0
      [] val.t = "String" ->
           (CASE val.v \in {"7", "+7"} -> 7 [] val.v = "12" -> 12
              [] val.v = "-3" -> 0 - 3 [] OTHER -> 0)
      [] OTHER -> 0

\* C26: for every expression without random, in every environment, the
\* integer path Exp::eval gives the integer coercion of what
\* Exp::eval_to_val gives.
C26_IntegerPathAgrees ==
    (pc = "paths" /\ ev.int.some /\ ev.val.some) => ev.int.v = Coerced(ev.val.v)

---------------------------------------------------------------------------
(* The viewer: between two generations of the long run the buttons of      *)
(* SimApp::update move current_gen_idx over the snapshot log, or reset the *)
(* application.                                                            *)

\* gui.rs 240-242: `<- Prev`
PrevEntry ==
    /\ pc = "idle"
    /\ current_gen_idx > 0
    /\ current_gen_idx' = current_gen_idx - 1
    /\ UNCHANGED <<program, envs, lists, instances, history, current_step_idx,
                   current_gen, running, global_best_fitness, pc, wpc, held, removed,
                   nworlds, grid, ev, tls, front>>

\* gui.rs 244-246: `Next ->`
NextEntry ==
    /\ pc = "idle"
    /\ current_gen_idx < saturating_sub(Len(history), 1)
    /\ current_gen_idx' = current_gen_idx + 1
    /\ UNCHANGED <<program, envs, lists, instances, history, current_step_idx,
                   current_gen, running, global_best_fitness, pc, wpc, held, removed,
                   nworlds, grid, ev, tls, front>>

\* SimApp::reset: the log and the old worlds are dropped (the agents of the
\* long run hold no reference to each other, so nothing of them survives)
\* and new worlds are spawned
Reset ==
    /\ pc = "idle"
    /\ current_gen' = 0
    /\ history' = <<>>
    /\ current_gen_idx' = 0
    /\ current_step_idx' = 1
    /\ running' = FALSE
    /\ global_best_fitness' = 0
    /\ \E cmds \in [1..program.instances -> spawn_choices] :
         With(seed_worlds(0, program.instances, cmds, [envs |-> <<>>, lists |-> <<>>]),
              LAMBDA r : /\ instances' = r.worlds
                         /\ SetHeap(r.H))
    /\ nworlds' = program.instances
    /\ held' = {}
    /\ removed' = <<>>
    /\ UNCHANGED <<program, pc, wpc, grid, ev, tls, front>>

InitViewer == Init /\ program \in LongPrograms

NextViewer ==
    \/ RunGenerationDone
    \/ RunGenerationStart
    \/ \E i \in 1..Len(instances) : WorldFinish(i)
    \/ RankAndRecord
    \/ CreateNextGeneration
    \/ PrevEntry
    \/ NextEntry
    \/ Reset

SpecViewer == InitViewer /\ [][NextViewer]_vars

\* C27: whenever the snapshot log is non-empty current_gen_idx is an index
\* into it; a generation recorded while the viewer is on the latest entry
\* leaves it on the latest entry; and when the cap drops the oldest entry
\* while the viewer is on an older entry k > 0, the index designates the
\* same GenerationSnapshot afterwards, its agents not torn down.
C27_ViewerIndexValid ==
    /\ [](history # <<>> => current_gen_idx \in 0..(Len(history) - 1))
    /\ [][(pc = "par" /\ pc' = "breed") =>
             /\ (history = <<>> \/ current_gen_idx = Len(history) - 1) =>
                   current_gen_idx' = Len(history') - 1
             /\ (Len(history) = HistoryCap /\ current_gen_idx > 0
                   /\ current_gen_idx < Len(history) - 1) =>
                   /\ history'[current_gen_idx' + 1] = history[current_gen_idx + 1]
                   /\ \A j \in 1..Len(history'[current_gen_idx' + 1].individuals) :
                         envs'[history'[current_gen_idx' + 1].individuals[j].env]
                            # EmptyStore]_vars

C27_Witness ==
    /\ pc = "breed"
    /\ removed # <<>>
    /\ Len(history) = HistoryCap
    /\ current_gen_idx \in 1..(HistoryCap - 3)
    /\ history[current_gen_idx + 1].best_fitness < history[HistoryCap].best_fitness

---------------------------------------------------------------------------
(* The agent lists under the passes of a generation.  Two worlds and the   *)
(* agents of a GenerationSnapshot; the SPAWN block and the routine are     *)
(*   `if (self.x == 0) { spawn Ant at (1, self.y) } ...` ("spawn"),        *)
(* and the fitness block, the mutation body, the crossover body and the    *)
(* visualize block all are the body program.mutation names, "spawn" or     *)
(*   `spawn Wasp at (self.x + 1, self.y)` ("hatch").                       *)

MaxFrameAgents == 2        \* most agents a world starts with
MaxFramePasses == 4        \* most passes run one after the other

PassKinds == {"fitness", "mutate", "crossover", "visualize"}

\* world w's j-th agent is <<w, j>>; arena 3 holds the snapshot's agents
FrameHeap(counts) ==
    [envs |-> [a \in BreedAddrs(counts) |->
                  [species |-> VString("Ant"), x |-> VInt(a[2] - 1), y |-> VInt(a[2]),
                   mate |-> VInt(0), genes |-> VList(a)]],
     lists |-> [a \in BreedAddrs(counts) |-> <<VInt(a[1])>>]]

frame_individuals(w, n) == [j \in 1..n |-> [species |-> "Ant", env |-> <<w, j>>]]

\* an agent list that takes in the agents a pass spawned
extend_spawner(individuals, spawner) == individuals \o spawner

\* `let mut spawner = Vec::new();` of a pass: the commands push into the
\* local vector, which is dropped with its scope
drop_spawner(individuals, spawner) == individuals

\* World::calculate_total_fitness with the spawning block: no Return and no
\* `score`, so every agent gets 0.  `n` is the length the loop was entered with.
RECURSIVE frame_fitness(_, _, _, _, _, _)
frame_fitness(i, n, individuals, H, arena, count) ==
    IF Now(H) /\ i > n THEN [individuals |-> individuals, H |-> H, count |-> count]
    ELSE LET env == individuals[i].env
         IN With(execute(program.fitness, assign_Var(H, env, "self", VObject(env)),
                         env, individuals, <<>>, arena), LAMBDA r :
            LET store == r.H.envs[env]
                score == IF "score" \in DOMAIN store THEN to_int(store["score"]) ELSE 0
            IN frame_fitness(i + 1, n, drop_spawner(individuals, r.spawner),
                             assign_Var(r.H, env, "fitness", VInt(score)), arena,
                             count + Len(r.spawner)))

\* World::mutate, rule probability 1.0
RECURSIVE frame_mutate(_, _, _, _, _, _, _)
frame_mutate(i, n, individuals, individuals_snapshot, H, arena, count) ==
    IF Now(H) /\ i > n THEN [individuals |-> individuals, H |-> H, count |-> count]
    ELSE LET env == individuals[i].env
         IN With(execute(program.mutation, assign_Var(H, env, "self", VObject(env)),
                         env, individuals_snapshot, <<>>, arena), LAMBDA r :
            frame_mutate(i + 1, n, drop_spawner(individuals, r.spawner),
                         individuals_snapshot, r.H, arena, count + Len(r.spawner)))

\* apply_crossover on `child` with second parent p2; ok is FALSE when
\* p2.individuals[j] is out of bounds
RECURSIVE frame_crossover(_, _, _, _, _, _)
frame_crossover(j, n, individuals, p2, H, count) ==
    IF Now(H) /\ j > n
    THEN [individuals |-> individuals, H |-> H, count |-> count, ok |-> TRUE]
    ELSE IF j > Len(p2)
    THEN [individuals |-> individuals, H |-> H, count |-> count, ok |-> FALSE]
    ELSE LET crossover_env == NewAddr(DOMAIN H.envs, 0)
             store == Insert(Insert(Insert(EmptyStore,
                          "parent1", VObject(individuals[j].env)),
                          "parent2", VObject(p2[j].env)),
                          "child", VObject(individuals[j].env))
         IN With(execute(program.crossover, AllocEnv(H, crossover_env, store),
                         crossover_env, <<>>, <<>>, 0), LAMBDA r :
            frame_crossover(j + 1, n, drop_spawner(individuals, r.spawner), p2,
                            ClearStore(r.H, crossover_env), count + Len(r.spawner)))

\* SimApp::execute_visualize_block on a snapshot without step frames
frame_visualize(body, viz_individuals, H) ==
    LET viz_env == NewAddr(DOMAIN H.envs, 0)
        store == Insert(Insert(EmptyStore, "width", VInt(program.env_width)),
                        "height", VInt(program.env_height))
    IN With(execute(body, AllocEnv(H, viz_env, store), viz_env, viz_individuals,
                    <<>>, 0), LAMBDA r :
       [individuals |-> drop_spawner(viz_individuals, r.spawner), H |-> r.H,
        count |-> Len(r.spawner)])

\* the agents of the two worlds; the snapshot holds one agent
FrameCounts == {<<c[1], c[2], 1>> : c \in [1..2 -> 1..MaxFrameAgents]}

InitFrame ==
    /\ \E counts \in FrameCounts, body \in {"spawn", "hatch"} :
          /\ program = Prog(2, 1, 1, "spawn", body, body, body, 1, FALSE)
          /\ ev = [worlds |-> [w \in 1..2 |->
                                  [World_new(w - 1, w) EXCEPT
                                      !.individuals = frame_individuals(w, counts[w])]],
                   snapshot |-> frame_individuals(3, counts[3]),
                   H |-> FrameHeap(counts), passes |-> 0, last |-> "none",
                   ran |-> {}]
    /\ envs = <<>>
    /\ lists = <<>>
    /\ instances = <<>>
    /\ history = <<>>
    /\ current_gen_idx = 0
    /\ current_step_idx = 1
    /\ current_gen = 0
    /\ running = FALSE
    /\ global_best_fitness = 0
    /\ pc = "frame"
    /\ wpc = <<>>
    /\ held = {}
    /\ removed = <<>>
    /\ nworlds = 2
    /\ grid = NoGrid
    /\ tls = NoThreads
    /\ front = NoFront

\* what a pass leaves: `kind` ran on world w (0: on the snapshot) and
\* executed `count` Spawn commands
AfterPass(kind, w, individuals, H, count) ==
    ev' = [ev EXCEPT !.worlds = IF w = 0 THEN @ ELSE [@ EXCEPT ![w].individuals = individuals],
                     !.snapshot = IF w = 0 THEN individuals ELSE @,
                     !.H = H, !.passes = @ + 1, !.last = kind,
                     !.ran = IF count > 0 THEN @ \cup {kind} ELSE @]

\* World::spawn of world w
FrameSpawn(w) ==
    /\ pc = "frame" /\ ev.passes < MaxFramePasses
    /\ With(spawn(ev.worlds[w], ev.H, <<"Ant">>), LAMBDA r :
            AfterPass("spawn", w, r.w.individuals, r.H, 0))
    /\ UNCHANGED <<engine, grid, tls, front>>

\* World::step of world w
FrameStep(w) ==
    /\ pc = "frame" /\ ev.passes < MaxFramePasses
    /\ With(step(ev.worlds[w], ev.H), LAMBDA r :
            AfterPass("step", w, r.w.individuals, r.H, 0))
    /\ UNCHANGED <<engine, grid, tls, front>>

\* World::calculate_total_fitness of world w
FrameFitness(w) ==
    /\ pc = "frame" /\ ev.passes < MaxFramePasses
    /\ With(frame_fitness(1, Len(ev.worlds[w].individuals), ev.worlds[w].individuals,
                          ev.H, w, 0), LAMBDA r :
            AfterPass("fitness", w, r.individuals, r.H, r.count))
    /\ UNCHANGED <<engine, grid, tls, front>>

\* World::mutate of world w
FrameMutate(w) ==
    /\ pc = "frame" /\ ev.passes < MaxFramePasses
    /\ With(frame_mutate(1, Len(ev.worlds[w].individuals), ev.worlds[w].individuals,
                         ev.worlds[w].individuals, ev.H, w, 0), LAMBDA r :
            AfterPass("mutate", w, r.individuals, r.H, r.count))
    /\ UNCHANGED <<engine, grid, tls, front>>

\* apply_crossover on world w, the other world being the second parent
FrameCrossover(w) ==
    /\ pc = "frame" /\ ev.passes < MaxFramePasses
    /\ With(frame_crossover(1, Len(ev.worlds[w].individuals), ev.worlds[w].individuals,
                            ev.worlds[3 - w].individuals, ev.H, 0), LAMBDA r :
            /\ AfterPass("crossover", w, r.individuals, r.H, r.count)
            /\ pc' = IF r.ok THEN pc ELSE "panic")
    /\ UNCHANGED <<program, envs, lists, instances, history, current_gen_idx,
                   current_step_idx, current_gen, running, global_best_fitness, wpc,
                   held, removed, nworlds, grid, tls, front>>

\* execute_visualize_block on the snapshot
FrameVisualize ==
    /\ pc = "frame" /\ ev.passes < MaxFramePasses
    /\ With(frame_visualize(program.mutation, ev.snapshot, ev.H), LAMBDA r :
            AfterPass("visualize", 0, r.individuals, r.H, r.count))
    /\ UNCHANGED <<engine, grid, tls, front>>

NextFrame ==
    \/ \E w \in 1..2 : FrameSpawn(w)
    \/ \E w \in 1..2 : FrameStep(w)
    \/ \E w \in 1..2 : FrameFitness(w)
    \/ \E w \in 1..2 : FrameMutate(w)
    \/ \E w \in 1..2 : FrameCrossover(w)
    \/ FrameVisualize

SpecFrame == InitFrame /\ [][NextFrame]_vars

\* C28: an agent list changes only in World::spawn and at the end of
\* World::step; the fitness block, a mutation body, a crossover body and
\* the visualize block, also when they execute Spawn commands, leave every
\* world's agent list and the snapshot's agent list as they were.
C28_OnlySpawnAndStepAddAgents ==
    [][/\ (\E w \in 1..2 : ev'.worlds[w].individuals # ev.worlds[w].individuals)
             => ev'.last \in {"spawn", "step"}
       /\ ev'.last \in PassKinds =>
             /\ \A w \in 1..2 : ev'.worlds[w].individuals = ev.worlds[w].individuals
             /\ ev'.snapshot = ev.snapshot
       /\ ev'.snapshot = ev.snapshot]_vars

C28_Witness ==
    /\ pc = "frame"
    /\ ev.ran = PassKinds
    /\ \E a \in DOMAIN ev.H.envs :
          /\ "species" \in DOMAIN ev.H.envs[a]
          /\ \A w \in 1..2 : \A j \in 1..Len(ev.worlds[w].individuals) :
                ev.worlds[w].individuals[j].env # a
          /\ \A j \in 1..Len(ev.snapshot) : ev.snapshot[j].env # a
          /\ a[1] \in 0..2

---------------------------------------------------------------------------
(* WORLD_DIMENSIONS across the passes of successive generations.  The      *)
(* routine, the fitness block, the mutation body, the crossover body and   *)
(* the visualize block (when the program has one) each evaluate            *)
(* `environment[x][y]` once; the worlds hold one agent.  The workers run   *)
(* the steps and the scoring of a generation, the GUI thread then runs     *)
(* create_next_generation, and renders between two generations.            *)

MaxDimGenerations == 2     \* generations run
MaxDimPasses == 3          \* passes a worker runs

DimSizes == {<<3, 3>>, <<3, 2>>, <<100, 100>>}
DimQueries == {<<1, 0>>, <<4, 0>>, <<0 - 2, 2>>, <<101, 100>>}
DimPositions == {[x |-> 1, y |-> 0], [x |-> 0, y |-> 1]}

\* Exp::eval_to_val of `environment[x][y]` on thread t during `pass`: the
\* dimensions are read from the thread's WORLD_DIMENSIONS; the cache of a
\* one-agent world is never built
index_environment(pass, t, cells, x, y, individuals) ==
    LET width == cells.WORLD_DIMENSIONS[1]
        height == cells.WORLD_DIMENSIONS[2]
    IN [pass |-> pass, thread |-> t, width |-> width, height |-> height,
        val |-> eval_to_val_GridCell(x, y,
                    [width |-> width, height |-> height, individuals |-> individuals,
                     cache |-> [some |-> FALSE, map |-> <<>>],
                     overflow_checks |-> FALSE]).val]

InitDims ==
    /\ \E size \in DimSizes, visualize \in {"empty", "cell"}, q \in DimQueries,
          at \in DimPositions :
          /\ program = [visualize |-> visualize, agents |-> 1]
                       @@ [Prog(2, 1, MaxDimGenerations, "cell", "cell", "cell", "cell",
                                1, FALSE)
                           EXCEPT !.env_width = size[1], !.env_height = size[2]]
          /\ grid = [NoGrid EXCEPT !.width = size[1], !.height = size[2],
                                   !.individuals = <<at>>, !.queries = <<q>>]
    /\ tls = [t \in Threads |-> ThreadLocals]
    /\ ev = [reads |-> {}, generation |-> 0, phase |-> "idle", scored |-> 0]
    /\ envs = <<>>
    /\ lists = <<>>
    /\ instances = <<>>
    /\ history = <<>>
    /\ current_gen_idx = 0
    /\ current_step_idx = 1
    /\ current_gen = 0
    /\ running = FALSE
    /\ global_best_fitness = 0
    /\ pc = "dims"
    /\ wpc = <<>>
    /\ held = {}
    /\ removed = <<>>
    /\ nworlds = 0
    /\ front = NoFront

Read(pass, t, cells) ==
    index_environment(pass, t, cells, grid.queries[1][1], grid.queries[1][2],
                      grid.individuals)

\* gui.rs 60-77: the generation is counted and handed to the pool
DimsStart ==
    /\ pc = "dims" /\ ev.phase = "idle"
    /\ ev.generation < program.generations
    /\ ev' = [ev EXCEPT !.generation = @ + 1, !.phase = "par", !.scored = 0]
    /\ UNCHANGED <<engine, grid, tls, front>>

\* World::step of a world on worker t
DimsStep(t) ==
    /\ pc = "dims" /\ ev.phase = "par" /\ t # 0
    /\ tls[t].of < MaxDimPasses
    /\ LET cells == pass_begin(tls[t], "step")
       IN /\ ev' = [ev EXCEPT !.reads = @ \cup {Read("step", t, cells)}]
          /\ tls' = [tls EXCEPT ![t] = pass_end(cells, program.routine)]
    /\ UNCHANGED <<engine, grid, front>>

\* World::calculate_total_fitness of a world on worker t
DimsFitness(t) ==
    /\ pc = "dims" /\ ev.phase = "par" /\ t # 0
    /\ tls[t].of < MaxDimPasses
    /\ ev.scored < program.instances
    /\ LET cells == pass_begin(tls[t], "fitness")
       IN /\ ev' = [ev EXCEPT !.reads = @ \cup {Read("fitness", t, cells)},
                              !.scored = @ + 1]
          /\ tls' = [tls EXCEPT ![t] = pass_end(cells, program.fitness)]
    /\ UNCHANGED <<engine, grid, front>>

\* gui.rs 94-172 on the GUI thread: the snapshot is pushed and
\* create_next_generation runs apply_crossover and World::mutate for the
\* children; neither writes WORLD_DIMENSIONS
DimsBreed ==
    /\ pc = "dims" /\ ev.phase = "par"
    /\ ev.scored = program.instances
    /\ ev' = [ev EXCEPT !.reads = @ \cup {Read("crossover", 0, tls[0]),
                                         Read("mutate", 0, tls[0])},
                        !.phase = "idle"]
    /\ UNCHANGED <<engine, grid, tls, front>>

\* render_visualization on the GUI thread once the log is non-empty
DimsVisualize ==
    /\ pc = "dims" /\ ev.phase = "idle"
    /\ ev.generation > 0
    /\ program.visualize # "empty"
    /\ LET cells == [tls[0] EXCEPT !.DRAW_COMMANDS = <<>>,
                                   !.WORLD_DIMENSIONS = <<program.env_width,
                                                          program.env_height>>,
                                   !.GRID_CACHE = "Some"]
       IN /\ ev' = [ev EXCEPT !.reads = @ \cup {Read("visualize", 0, cells)}]
          /\ tls' = [tls EXCEPT ![0] = pass_end(cells, program.visualize)]
    /\ UNCHANGED <<engine, grid, front>>

NextDims ==
    \/ DimsStart
    \/ \E t \in Threads : DimsStep(t)
    \/ \E t \in Threads : DimsFitness(t)
    \/ DimsBreed
    \/ DimsVisualize

SpecDims == InitDims /\ [][NextDims]_vars

\* C29: whenever environment[x][y] is evaluated for a world, in a routine,
\* in the fitness block, in a mutation or crossover body or in the
\* visualize block, the dimensions read from WORLD_DIMENSIONS are the
\* world's width and height, on whichever thread and after whatever pass.
C29_DimensionsAreTheWorlds ==
    pc = "dims" =>
        \A r \in ev.reads : <<r.width, r.height>> = <<program.env_width, program.env_height>>

============================================================================
